---- MODULE Spec2Model ----
(***************************************************************************)
(* Verification model of the divergence trading bot:                       *)
(*   - the order lifecycle FSM      (bot/layer3_execution/order_state.py)  *)
(*   - the risk manager             (bot/layer4_risk/manager.py)           *)
(*   - the execution engine         (bot/layer3_execution/engine.py)       *)
(*   - the analysis cycle driver    (bot/main.py)                          *)
(* Three specifications share the module: SpecFSM drives one               *)
(* OrderStateMachine object, SpecRisk drives one RiskManager object with   *)
(* portfolios drawn from bounded sets, and Spec drives the analysis cycle  *)
(* and the position monitor over the orders table.                         *)
(***************************************************************************)
EXTENDS Integers, Sequences, FiniteSets, TLC

VARIABLES
    \* ---- OrderStateMachine object (SpecFSM) ----
    fsm_state,      \* OrderStateMachine._state
    fsm_called,     \* TRUE once transition() has been called
    fsm_prev,       \* _state when the last transition() call was made
    fsm_target,     \* target of the last transition() call
    fsm_raised,     \* the last transition() call raised InvalidTransitionError
    fsm_retries,    \* number of error -> pending transitions taken so far
    fsm_calls,      \* number of transition() calls so far
    \* ---- RiskManager object and its surroundings (SpecRisk, Spec) ----
    rm,             \* the RiskManager object: breaker flags, reasons, tripped date
    today,          \* datetime.now(UTC) as a UTC day number
    cb_events,      \* rows of the circuit_breaker_events table
    rk_signal,      \* SpecRisk: the signal handed to check_entry
    rk_positions,   \* SpecRisk: portfolio.open_positions handed to check_entry
    rk_last,        \* SpecRisk: the last RiskManager call, its inputs and result
    rk_tripped_on,  \* SpecRisk: {d} once a breaching check_entry call was made on
                    \* day d with the kill switch off; {} after a manual reset
    \* ---- ExecutionEngine, analysis cycle and database tables (Spec) ----
    trading_mode,   \* Settings.trading_mode
    tp1_close_pct,  \* Settings.tp1_close_pct, in percent
    orders,         \* rows of the orders table, in insertion order; id = index
    snapshot_peak,    \* per broker: MAX(total_equity) of portfolio_snapshots, 0 if none
    cycle_pc,       \* "idle", or "running" while an analysis cycle is in flight
    cycle_idx,      \* index in CycleItems of the next (symbol, timeframe) pair
    portfolio_cache,  \* analysis_cycle: portfolio_cache, per broker
    traded_symbols,   \* analysis_cycle: traded_symbols
    last_updates,   \* state changes written to the orders table by the last step
    last_exec,      \* the execute_signal call of the last step, NoExec if none
    last_fills,     \* orders the last monitor pass moved to filled, each with
                    \* whether the venue reports the order as filled
    last_prices,    \* per row: the current_price the last monitor pass used
                    \* for it, NoPrice if it skipped the row; <<>> if the last
                    \* step was no monitor pass
    \* ---- candle dedup state of bot/main.py and the exchanges (SpecCandles) ----
    candle_ts,          \* per timeframe: timestamp of the exchanges' latest candle
    last_candle_times,  \* _last_candle_times, per index in CycleItems
    signaled_candles,   \* _signaled_candles, per index in CycleItems
    signal_rows,        \* per pair: the rows of the signals table that were
                        \* detected on the pair's latest candle
    boot,               \* the process: restarts so far; loop iterations since
                        \* the start, counted up to those of the initial cycle;
                        \* no candle opened since the start; every pair's latest
                        \* candle was signaled when the process started
    \* ---- what the analysis cycle did with execute_signal (SpecCycle) ----
    attempted,          \* symbols execute_signal was called for in this cycle
    last_attempt,       \* the execute_signal call of the last loop iteration,
                        \* NoAttempt if it made none
    \* ---- multi-timeframe confirmation of bot/main.py (SpecSetups) ----
    use_multi_tf_confirmation,  \* Settings.use_multi_tf_confirmation
    clock,              \* datetime.now(UTC), in hours since start-up
    active_setups,      \* _active_setups, per symbol the list of its setups
    setup_count,        \* ActiveSetup objects created so far
    detections,         \* divergences the detector found so far
    setup_confirmations,  \* per ActiveSetup: confirmed signals built from it
    last_item,          \* the last loop iteration: what it found and did
    \* ---- exceptions in the jobs of bot/main.py ----
    registered,         \* BrokerRouter._brokers: the broker ids registered
    result_errors,      \* len(result.errors) of the running cycle
    cycle_result,       \* how the last analysis_cycle call ended
    last_fault,         \* the call that raised in the last loop iteration
    last_monitored,     \* the rows the last monitor pass came to
    monitor_failed,     \* the row whose statement raised in that pass, or 0
    \* ---- main() of bot/main.py and its scheduler (SpecScheduler) ----
    main_pc,            \* the statement main() is at
    scheduled_running,  \* the jobs with an instance started by the scheduler
                        \* and still in flight
    stop_event,         \* stop_event.is_set()
    cancelled,          \* the jobs whose instance was cancelled in flight
    last_trigger,       \* the last trigger of the scheduler and what came of it
    \* ---- signal outcome tracker (SpecOutcome) ----
    tracked_signal,     \* the row of the signals table the tracker follows
    signal_outcomes,    \* rows of the signal_outcomes table
    candles_1h,         \* the "1h" candles the broker holds for the symbol,
                        \* oldest first
    last_run,           \* the last track_signal_outcomes call and what it did
    \* ---- IGRateLimiter object and its callers (SpecLimiter) ----
    windows,            \* IGRateLimiter._windows: per category the deque of
                        \* grant times, each held as its age in seconds
    acquiring,          \* per caller: the acquire() call it is suspended in
    granted,            \* per category: the ages of the grants of the last
                        \* _WINDOW_S seconds
    acquire_calls,      \* acquire() calls made so far
    last_acquire,       \* the last pass through the loop of acquire()
    \* ---- IGSession object and the requests in flight (SpecSession) ----
    token,              \* the CST / X-SECURITY-TOKEN pair the session holds
    session_lock,       \* IGSession._lock: the job holding it, "None" if free
    session_pc,         \* per job: where its IGSession.request() call stands
    \* ---- order submission in live mode (SpecLive) ----
    adapter_call,       \* the broker adapter call in progress under its
                        \* tenacity wrapper: the outcome of each attempt
    venue,              \* orders the venue accepted during the
                        \* execute_signal call: entries and stops
    live_exec           \* the execute_signal call: where step 4 stands and
                        \* the state the order was given

fsmVars == <<fsm_state, fsm_called, fsm_prev, fsm_target, fsm_raised,
             fsm_retries, fsm_calls>>

riskVars == <<rm, today, cb_events>>

rkVars == <<rk_signal, rk_positions, rk_last, rk_tripped_on>>

candleVars == <<candle_ts, last_candle_times, signaled_candles, signal_rows,
                boot>>

mainVars == <<attempted, last_attempt>>

setupVars == <<use_multi_tf_confirmation, clock, active_setups,
               setup_count, detections, setup_confirmations, last_item>>

schedVars == <<main_pc, scheduled_running, stop_event, cancelled, last_trigger>>

trackVars == <<tracked_signal, signal_outcomes, candles_1h, last_run>>

limiterVars == <<windows, acquiring, granted, acquire_calls, last_acquire>>

sessionVars == <<token, session_lock, session_pc>>

liveVars == <<adapter_call, venue, live_exec>>

serviceVars == <<trackVars, limiterVars, sessionVars, liveVars>>

procVars == <<registered, result_errors, cycle_result, last_fault,
              last_monitored, monitor_failed, schedVars, serviceVars>>

engVars == <<trading_mode, tp1_close_pct, orders, snapshot_peak, cycle_pc,
             cycle_idx, portfolio_cache, traded_symbols, last_updates,
             last_exec, last_fills, last_prices, candleVars, mainVars,
             setupVars, procVars>>

vars == <<fsmVars, riskVars, rkVars, engVars>>

----------------------------------------------------------------------------
\* Bounds

\* transition() calls made on one OrderStateMachine object
MaxCalls == 6

\* UTC days the clock runs through (days 0 .. MaxDay)
MaxDay == 1

\* open_positions handed to check_entry hold at most MaxPositions orders
MaxPositions == 2

\* reset_drawdown_breaker is called while circuit_breaker_events holds fewer
\* than MaxEvents rows
MaxEvents == 1

\* the detector delivers validated signals while the orders table holds fewer
\* than MaxOrders rows
MaxOrders == 2

\* candle timestamps run from 1 to MaxCandle
MaxCandle == 2

\* restarts of the process
MaxRestarts == 1

\* the clock runs from 0 to MaxClock hours
MaxClock == 28

\* the detector finds at most MaxSignals divergences in a run
MaxSignals == 3

\* the detector finds divergences on the first MaxSignalCandle candles of a
\* timeframe only
MaxSignalCandle == 3

----------------------------------------------------------------------------
\* bot/models.py : OrderState

OrderState == {"pending", "submitted", "partially_filled", "filled",
               "cancelled", "rejected", "closed", "error"}

----------------------------------------------------------------------------
\* bot/layer3_execution/order_state.py

TRANSITIONS_NoRetry ==
    [s \in OrderState |->
        CASE s = "pending"          -> {"submitted", "cancelled", "error"}
          [] s = "submitted"        -> {"partially_filled", "filled",
                                        "cancelled", "rejected", "error"}
          [] s = "partially_filled" -> {"filled", "cancelled", "error"}
          [] s = "filled"           -> {"closed"}
          [] s = "cancelled"        -> {}
          [] s = "rejected"         -> {}
          [] s = "closed"           -> {}
          [] s = "error"            -> {}]

TRANSITIONS ==
    [s \in OrderState |->
        CASE s = "pending"          -> {"submitted", "cancelled", "error"}
          [] s = "submitted"        -> {"partially_filled", "filled",
                                        "cancelled", "rejected", "error"}
          [] s = "partially_filled" -> {"filled", "cancelled", "error"}
          [] s = "filled"           -> {"closed"}
          [] s = "cancelled"        -> {}
          [] s = "rejected"         -> {}
          [] s = "closed"           -> {}
          [] s = "error"            -> {"pending"}]

\* OrderStateMachine.is_terminal
is_terminal(s) == Cardinality(TRANSITIONS[s]) = 0

\* OrderStateMachine.is_active
is_active(s) == ~is_terminal(s)

can_transition_Unchecked(s, target) == TRUE

\* OrderStateMachine.can_transition
can_transition(s, target) == target \in TRANSITIONS[s]

----------------------------------------------------------------------------
\* bot/instruments.py

SignalDirection == {"long", "short"}

\* the instruments of the model: one crypto symbol (Binance) and three OANDA
\* instruments, two of them bonds
Symbols == {"BTC/USDT", "EUR_USD", "USB10Y_USD", "USB02Y_USD"}

OANDA_INSTRUMENTS == {"EUR_USD", "USB10Y_USD", "USB02Y_USD"}

IG_INSTRUMENTS == {}

\* asset_class of the OANDA_INSTRUMENTS entries
OANDA_ASSET_CLASS ==
    [s \in OANDA_INSTRUMENTS |-> IF s = "EUR_USD" THEN "forex" ELSE "bond"]

\* asset_class of the IG_INSTRUMENTS entries (none in the model)
IG_ASSET_CLASS == [s \in IG_INSTRUMENTS |-> "stock"]

get_asset_class(symbol) ==
    IF symbol \in OANDA_INSTRUMENTS THEN OANDA_ASSET_CLASS[symbol]
    ELSE IF symbol \in IG_INSTRUMENTS THEN IG_ASSET_CLASS[symbol]
    ELSE "crypto"

route_symbol(symbol) ==
    IF symbol \in IG_INSTRUMENTS THEN "ig"
    ELSE IF symbol \in OANDA_INSTRUMENTS THEN "oanda"
    ELSE "binance"

----------------------------------------------------------------------------
\* bot/config.py : Settings (risk)

max_daily_loss_pct == 5

max_drawdown_pct == 15

\* per-broker position caps; the shipped default is 4 for every broker, the
\* model runs with a smaller configured value
binance_max_open_positions == 2

oanda_max_open_positions == 2

ig_max_open_positions == 2

get_max_open_positions(broker_id) ==
    IF broker_id = "oanda" THEN oanda_max_open_positions
    ELSE IF broker_id = "ig" THEN ig_max_open_positions
    ELSE binance_max_open_positions

oanda_starting_equity == 10000

ig_starting_equity == 10000

----------------------------------------------------------------------------
\* bot/layer4_risk/manager.py

STARTING_EQUITY == 5000

CorrLimitForex == 4

CorrLimitIndex == 3

CorrLimitCommodity == 3

CorrLimitBond == 1

CorrLimitCrypto == 4

CorrLimitDefault == 4

\* _ASSET_CLASS_CORRELATION_LIMITS.get(asset_class, 4)
ASSET_CLASS_CORRELATION_LIMITS(ac) ==
    CASE ac = "forex"     -> CorrLimitForex
      [] ac = "index"     -> CorrLimitIndex
      [] ac = "commodity" -> CorrLimitCommodity
      [] ac = "bond"      -> CorrLimitBond
      [] ac = "crypto"    -> CorrLimitCrypto
      [] OTHER            -> CorrLimitDefault

Abs(x) == IF x < 0 THEN 0 - x ELSE x

\* RiskManager.__init__
InitRiskManager ==
    [cb_active |-> FALSE, cb_reason |-> "None", cb_tripped_date |-> {},
     dd_active |-> FALSE, dd_reason |-> "None"]

reset_circuit_breaker_AlsoDrawdown(r) ==
    [r EXCEPT !.cb_active = FALSE, !.cb_reason = "None", !.cb_tripped_date = {},
              !.dd_active = FALSE, !.dd_reason = "None"]

\* RiskManager.reset_circuit_breaker
reset_circuit_breaker(r) ==
    [r EXCEPT !.cb_active = FALSE, !.cb_reason = "None", !.cb_tripped_date = {}]

\* RiskManager.reset_drawdown_breaker
reset_drawdown_breaker(r) ==
    [r EXCEPT !.dd_active = FALSE, !.dd_reason = "None"]

trip_circuit_breaker_FlagOnly(r, reason, now) ==
    [r EXCEPT !.cb_active = TRUE, !.cb_reason = reason]

\* RiskManager._trip_circuit_breaker: sets the flag, the reason and the date,
\* and logs; it writes nothing to the database
trip_circuit_breaker(r, reason, now) ==
    [r EXCEPT !.cb_active = TRUE, !.cb_reason = reason, !.cb_tripped_date = {now}]

auto_reset_AnyDay(r, now) ==
    IF r.cb_active THEN reset_circuit_breaker(r) ELSE r

auto_reset_Never(r, now) == r

\* check_entry, "Auto-reset circuit breaker at start of new day"
auto_reset(r, now) ==
    IF r.cb_active /\ r.cb_tripped_date # {now}
      THEN reset_circuit_breaker(r)
      ELSE r

active_states == {"pending", "submitted", "filled", "partially_filled"}

\* check_entry, Check 2: loss_pct = abs(daily_pnl) / total_equity * 100,
\* compared with max_daily_loss_pct (cross-multiplied, total_equity > 0)
daily_loss_exceeded(portfolio) ==
    /\ portfolio.total_equity > 0
    /\ portfolio.daily_pnl < 0
    /\ Abs(portfolio.daily_pnl) * 100 >= max_daily_loss_pct * portfolio.total_equity

RiskCheckResult(approved, reason, arg, r) ==
    [approved |-> approved, reason |-> reason, arg |-> arg, rm |-> r]

\* indices of the positions Check 3 looks at: active and on the signal's symbol
same_symbol_active(signal, open_positions) ==
    {i \in 1..Len(open_positions) :
        /\ open_positions[i].state \in active_states
        /\ open_positions[i].symbol = signal.symbol}

Min(S) == CHOOSE x \in S : \A y \in S : x <= y

reversal_decision_Inverted(signal, p) ==
    IF signal.direction # "None" /\ p.direction = signal.direction
      THEN [approved |-> TRUE, reason |-> "REVERSAL", arg |-> p.id]
      ELSE [approved |-> FALSE, reason |-> "Already positioned", arg |-> p.id]

\* check_entry, Check 3, the body of the loop for the first matching position
reversal_decision(signal, p) ==
    IF signal.direction # "None" /\ p.direction # signal.direction
      THEN [approved |-> TRUE, reason |-> "REVERSAL", arg |-> p.id]
      ELSE [approved |-> FALSE, reason |-> "Already positioned", arg |-> p.id]

open_count(open_positions) ==
    Cardinality({i \in 1..Len(open_positions) :
                    open_positions[i].state \in active_states})

\* the count taken over every asset class
same_class_same_dir_AnyClass(signal, open_positions) ==
    Cardinality({i \in 1..Len(open_positions) :
        /\ open_positions[i].state \in active_states
        /\ open_positions[i].direction = signal.direction})

same_class_same_dir(signal, open_positions) ==
    Cardinality({i \in 1..Len(open_positions) :
        /\ open_positions[i].state \in active_states
        /\ open_positions[i].direction = signal.direction
        /\ get_asset_class(open_positions[i].symbol) = get_asset_class(signal.symbol)})

\* RiskManager.check_entry(signal, portfolio, broker_id) called at UTC day now
\* on the RiskManager r; the result carries the RiskManager after the call
check_entry(r, now, signal, portfolio, broker_id) ==
    LET r1 == auto_reset(r, now)
        dup == same_symbol_active(signal, portfolio.open_positions)
    IN
    IF r1.cb_active
      THEN RiskCheckResult(FALSE, "Circuit breaker active", 0, r1)
    ELSE IF r1.dd_active
      THEN RiskCheckResult(FALSE, "DRAWDOWN KILL SWITCH", 0, r1)
    ELSE IF daily_loss_exceeded(portfolio)
      THEN RiskCheckResult(FALSE, "Daily loss exceeds limit", 0,
                           trip_circuit_breaker(r1, "Daily loss exceeds limit", now))
    ELSE IF dup # {}
      THEN LET d == reversal_decision(signal, portfolio.open_positions[Min(dup)])
           IN RiskCheckResult(d.approved, d.reason, d.arg, r1)
    ELSE IF open_count(portfolio.open_positions) >= get_max_open_positions(broker_id)
      THEN RiskCheckResult(FALSE, "Max open positions reached", 0, r1)
    ELSE IF /\ signal.direction # "None"
            /\ same_class_same_dir(signal, portfolio.open_positions)
                 >= ASSET_CLASS_CORRELATION_LIMITS(get_asset_class(signal.symbol))
      THEN RiskCheckResult(FALSE, "Correlation limit", 0, r1)
    ELSE RiskCheckResult(TRUE, "All risk checks passed", 0, r1)

\* get_portfolio_state: starting equity of a broker
starting_equity(broker_id) ==
    IF broker_id = "oanda" THEN oanda_starting_equity
    ELSE IF broker_id = "ig" THEN ig_starting_equity
    ELSE STARTING_EQUITY

Max2(a, b) == IF a >= b THEN a ELSE b

\* RiskManager._check_max_drawdown_for_broker.  peak is the value returned by
\* SELECT_PEAK_EQUITY_BY_BROKER (0 when the broker has no snapshot), peak_ok
\* whether that query succeeded.  Returns the RiskManager and whether
\* INSERT_CIRCUIT_BREAKER_EVENT is executed.
check_max_drawdown_for_broker(r, current_equity, starting_eq, broker_id, peak, peak_ok) ==
    LET peak_equity == Max2(IF peak = 0 THEN starting_eq ELSE peak, starting_eq)
    IN
    IF r.dd_active \/ ~peak_ok
      THEN [rm |-> r, insert |-> FALSE]
    ELSE IF /\ peak_equity > 0
            /\ current_equity < peak_equity
            /\ (peak_equity - current_equity) * 100 >= max_drawdown_pct * peak_equity
      THEN [rm |-> [r EXCEPT !.dd_active = TRUE, !.dd_reason = broker_id],
            insert |-> TRUE]
    ELSE [rm |-> r, insert |-> FALSE]

\* OrderStateMachine.__init__(initial_state), initial_state drawn from states
InitFSM(states) ==
    /\ fsm_state \in states
    /\ fsm_called = FALSE
    /\ fsm_prev = "pending"
    /\ fsm_target = "pending"
    /\ fsm_raised = FALSE
    /\ fsm_retries = 0
    /\ fsm_calls = 0

\* OrderStateMachine.transition(target)
transition(target) ==
    /\ UNCHANGED <<riskVars, rkVars, engVars>>
    /\ fsm_calls < MaxCalls
    /\ fsm_calls' = fsm_calls + 1
    /\ fsm_called' = TRUE
    /\ fsm_prev' = fsm_state
    /\ fsm_target' = target
    /\ IF ~can_transition(fsm_state, target)
         THEN \* raise InvalidTransitionError; _state is not assigned
              /\ fsm_raised' = TRUE
              /\ fsm_state' = fsm_state
              /\ fsm_retries' = fsm_retries
         ELSE /\ fsm_raised' = FALSE
              /\ fsm_state' = target
              /\ fsm_retries' = IF fsm_state = "error" /\ target = "pending"
                                  THEN fsm_retries + 1 ELSE fsm_retries

NextFSM == \E target \in OrderState : transition(target)

----------------------------------------------------------------------------
\* SpecRisk: one RiskManager driven through check_entry, get_portfolio_state,
\* the two manual resets and UTC midnight.  The signal and the open positions
\* are drawn at Init; equity and daily PnL are drawn at every call.

RiskSignalSymbols == {"USB10Y_USD"}

RiskPositionSymbols == OANDA_INSTRUMENTS

RiskPositionStates == {"filled", "closed"}

\* a filled position on any of the symbols, or a closed long one on the
\* signal's symbol (check_entry reads no direction of a row that is not open)
RiskPositionKinds ==
    {k \in [symbol : RiskPositionSymbols, direction : SignalDirection,
            state : RiskPositionStates] :
        k.state = "closed" => /\ k.symbol \in RiskSignalSymbols
                              /\ k.direction = "long"}

\* quantity and entry price (in hundredths) of the order held on a symbol:
\* 100,000 units of EUR_USD at 1.08, 16 units of a bond at 100.00
RiskOrderSizes ==
    [s \in RiskPositionSymbols |->
        IF s = "EUR_USD" THEN [quantity |-> 100000, entry_price |-> 108]
        ELSE [quantity |-> 16, entry_price |-> 10000]]

\* TradeOrder rows of a portfolio; the id of the i-th row is i
RiskPortfolios ==
    UNION {{[i \in 1..n |-> [id |-> i, symbol |-> k[i].symbol,
                            direction |-> k[i].direction, state |-> k[i].state,
                            quantity |-> RiskOrderSizes[k[i].symbol].quantity,
                            entry_price |-> RiskOrderSizes[k[i].symbol].entry_price]] :
              k \in [1..n -> RiskPositionKinds]} : n \in 0..MaxPositions}

RiskEquities == {0, 10000}

RiskDailyPnls == {0 - 500, 0 - 499}

RiskCumulativePnls == {0 - 1500, 3000}

RiskPeaks == {0, 12000}

NoCall ==
    [op |-> "none", pre |-> InitRiskManager, equity |-> 0, daily_pnl |-> 0,
     approved |-> FALSE, reason |-> "None", arg |-> 0, events_before |-> 0,
     peak |-> 0, pre_tripped_on |-> {}]

RiskSignals ==
    [symbol : RiskSignalSymbols, direction : SignalDirection \cup {"None"}]

\* RiskManager(settings, db) on day 0 with an empty circuit_breaker_events
\* table; the check_entry arguments are drawn from signals and portfolios
InitRisk(signals, portfolios) ==
    /\ rm = InitRiskManager
    /\ today = 0
    /\ cb_events = <<>>
    /\ rk_signal \in signals
    /\ rk_positions \in portfolios
    /\ rk_last = NoCall
    /\ rk_tripped_on = {}

\* a check_entry call
RiskCheckEntry(total_equity, daily_pnl) ==
    LET portfolio == [total_equity |-> total_equity, daily_pnl |-> daily_pnl,
                      open_positions |-> rk_positions]
        res == check_entry(rm, today, rk_signal, portfolio,
                           route_symbol(rk_signal.symbol))
    IN
    /\ rm' = res.rm
    /\ rk_last' = [NoCall EXCEPT !.op = "check_entry", !.pre = rm,
                     !.equity = total_equity, !.daily_pnl = daily_pnl,
                     !.approved = res.approved, !.reason = res.reason,
                     !.arg = res.arg, !.events_before = Len(cb_events),
                     !.pre_tripped_on = rk_tripped_on]
    /\ rk_tripped_on' = IF daily_loss_exceeded(portfolio) /\ ~rm.dd_active
                          THEN {today} ELSE rk_tripped_on
    /\ UNCHANGED <<today, cb_events, rk_signal, rk_positions, fsmVars, engVars>>

\* a get_portfolio_state(broker_id) call: total_equity is the starting equity
\* plus the cumulative realised PnL read from the orders table; the drawdown
\* check reads the peak equity from portfolio_snapshots
RiskGetPortfolioState(broker_id, cumulative_pnl, peak, peak_ok, insert_ok) ==
    LET total_equity == starting_equity(broker_id) + cumulative_pnl
        d == check_max_drawdown_for_broker(rm, total_equity,
                 starting_equity(broker_id), broker_id, peak, peak_ok)
    IN
    /\ rm' = d.rm
    /\ cb_events' = IF d.insert /\ insert_ok
                      THEN Append(cb_events, "MAX DRAWDOWN") ELSE cb_events
    /\ rk_last' = [NoCall EXCEPT !.op = "get_portfolio_state", !.pre = rm,
                     !.equity = total_equity, !.peak = peak,
                     !.events_before = Len(cb_events),
                     !.pre_tripped_on = rk_tripped_on]
    /\ UNCHANGED <<today, rk_signal, rk_positions, rk_tripped_on, fsmVars, engVars>>

\* a manual reset_circuit_breaker() call
RiskResetCircuitBreaker ==
    /\ rm' = reset_circuit_breaker(rm)
    /\ rk_last' = [NoCall EXCEPT !.op = "reset_circuit_breaker", !.pre = rm]
    /\ rk_tripped_on' = {}
    /\ UNCHANGED <<today, cb_events, rk_signal, rk_positions, fsmVars, engVars>>

\* a manual reset_drawdown_breaker() call
RiskResetDrawdownBreaker ==
    /\ Len(cb_events) < MaxEvents
    /\ rm' = reset_drawdown_breaker(rm)
    /\ rk_last' = [NoCall EXCEPT !.op = "reset_drawdown_breaker", !.pre = rm]
    /\ UNCHANGED <<today, cb_events, rk_signal, rk_positions, rk_tripped_on, fsmVars, engVars>>

\* UTC midnight passes
Midnight ==
    /\ today < MaxDay
    /\ today' = today + 1
    /\ rk_last' = [NoCall EXCEPT !.op = "midnight", !.pre = rm]
    /\ UNCHANGED <<rm, cb_events, rk_signal, rk_positions, rk_tripped_on, fsmVars, engVars>>

\* the outcomes of the INSERT into circuit_breaker_events: it is issued only
\* when the drawdown check trips the breaker, and it may fail then
InsertOutcomes(broker_id, cumulative_pnl, peak, peak_ok) ==
    IF check_max_drawdown_for_broker(rm,
           starting_equity(broker_id) + cumulative_pnl,
           starting_equity(broker_id), broker_id, peak, peak_ok).insert
    THEN BOOLEAN ELSE {TRUE}

NextRisk ==
    \/ \E e \in RiskEquities, p \in RiskDailyPnls : RiskCheckEntry(e, p)
    \/ \E b \in {"oanda"}, c \in RiskCumulativePnls,
          pk \in RiskPeaks, ok1 \in BOOLEAN :
            \E ok2 \in InsertOutcomes(b, c, pk, ok1) :
                RiskGetPortfolioState(b, c, pk, ok1, ok2)
    \/ RiskResetCircuitBreaker
    \/ RiskResetDrawdownBreaker
    \/ Midnight

----------------------------------------------------------------------------
\* bot/config.py : Settings (execution) and the deployment of the model

TradingMode == {"dev", "paper", "live"}

max_position_pct == 2

\* router.all_brokers: the market broker is always registered, OANDA when enabled
all_brokers == <<"binance", "oanda">>

\* settings.symbols + settings.oanda_symbols + settings.ig_symbols; the model
\* is deployed with OANDA instruments only, whose unit sizes are whole numbers
all_symbols == <<"USB10Y_USD", "USB02Y_USD">>

timeframes == <<"1h", "4h">>

\* the (symbol, timeframe) pairs in the order the analysis cycle visits them
CycleItems ==
    [k \in 1..(Len(all_symbols) * Len(timeframes)) |->
        [symbol    |-> all_symbols[((k - 1) \div Len(timeframes)) + 1],
         timeframe |-> timeframes[((k - 1) % Len(timeframes)) + 1]]]

----------------------------------------------------------------------------
\* bot/instruments.py : InstrumentInfo fields used by sizing and PnL

\* InstrumentInfo.max_leverage of the OANDA_INSTRUMENTS entries
OANDA_MAX_LEVERAGE ==
    [s \in OANDA_INSTRUMENTS |-> IF s = "EUR_USD" THEN 30 ELSE 10]

\* get_instrument(symbol).fee_rate in units of 0.001: 0 for OANDA and IG
\* instruments, 0.001 for the auto-generated crypto instrument
fee_rate(symbol) ==
    IF symbol \in OANDA_INSTRUMENTS \cup IG_INSTRUMENTS THEN 0 ELSE 1

----------------------------------------------------------------------------
\* bot/layer4_risk/manager.py : position sizing and portfolio state

\* _QUOTE_TO_USD["AUD"] = 0.65, in hundredths; _QUOTE_TO_AUD["USD"] = 1.0 / 0.65
QUOTE_TO_USD_AUD == 65

Min2(a, b) == IF a <= b THEN a ELSE b

\* int(n / d) for d > 0: truncation toward zero
IntDiv(n, d) == IF n >= 0 THEN n \div d ELSE 0 - ((0 - n) \div d)

\* RiskManager._calculate_oanda_position_size for an instrument quoted in USD
\* whose pip_value_per_unit equals its pip_size (all OANDA_INSTRUMENTS of the
\* model), so that stop_pips * pip_value_aud = stop_distance / 0.65:
\*   units     = total_equity * (max_position_pct / 100) / (stop_distance / 0.65)
\*   max_units = total_equity * max_leverage / (entry_price / 0.65)
\*   result    = int(min(units, max_units))
calculate_oanda_position_size(signal, portfolio) ==
    LET stop_distance == Abs(signal.entry_price - signal.stop_loss)
    IN
    IF signal.entry_price <= 0 THEN 0
    ELSE IF stop_distance = 0 THEN 0
    ELSE Min2(IntDiv(portfolio.total_equity * max_position_pct * QUOTE_TO_USD_AUD,
                     100 * 100 * stop_distance),
              IntDiv(portfolio.total_equity * OANDA_MAX_LEVERAGE[signal.symbol]
                                            * QUOTE_TO_USD_AUD,
                     100 * signal.entry_price))

\* RiskManager.calculate_position_size: every symbol of all_symbols is an OANDA
\* instrument, so the dispatch takes the OANDA branch
calculate_position_size(signal, portfolio) ==
    calculate_oanda_position_size(signal, portfolio)

RECURSIVE SumPnl(_, _)
\* SUM(pnl) over the rows with index in idxs
SumPnl(ords, idxs) ==
    IF idxs = {} THEN 0
    ELSE LET i == CHOOSE x \in idxs : TRUE
         IN ords[i].pnl + SumPnl(ords, idxs \ {i})

\* the states the SELECT_OPEN_ORDERS* and COUNT_OPEN_ORDERS* queries exclude
not_open_states == {"closed", "cancelled", "rejected", "error"}

Reverse(s) == [i \in 1..Len(s) |-> s[Len(s) + 1 - i]]

\* the TradeOrder built from a row, with the fields check_entry reads
TradeOrder(row) ==
    [id |-> row.id, symbol |-> row.symbol, direction |-> row.direction,
     state |-> row.state]

\* queries.SELECT_CUMULATIVE_PNL_BY_BROKER
SELECT_CUMULATIVE_PNL_BY_BROKER(ords, broker_id) ==
    SumPnl(ords, {i \in 1..Len(ords) :
                    ords[i].state = "closed" /\ ords[i].broker = broker_id})

\* queries.SELECT_DAILY_PNL_BY_BROKER at UTC day now
SELECT_DAILY_PNL_BY_BROKER(ords, broker_id, now) ==
    SumPnl(ords, {i \in 1..Len(ords) :
                    /\ ords[i].state = "closed" /\ ords[i].broker = broker_id
                    /\ ords[i].closed_day >= now})

\* queries.SELECT_OPEN_ORDERS_BY_BROKER: newest row first
SELECT_OPEN_ORDERS_BY_BROKER(ords, broker_id) ==
    LET Open(row) == row.state \notin not_open_states /\ row.broker = broker_id
    IN SelectSeq(Reverse(ords), Open)

\* queries.SELECT_OPEN_ORDERS: newest row first
SELECT_OPEN_ORDERS(ords) ==
    LET Open(row) == row.state \notin not_open_states
    IN SelectSeq(Reverse(ords), Open)

\* RiskManager.get_portfolio_state(broker_id) on the RiskManager r at UTC day
\* now, reading the orders table ords and the snapshot peak of the broker.
\* Returns the PortfolioState, the RiskManager after the drawdown check and
\* whether a circuit_breaker_events row is inserted.
get_portfolio_state(r, now, ords, peak, broker_id) ==
    LET starting_eq == starting_equity(broker_id)
        total_equity == starting_eq + SELECT_CUMULATIVE_PNL_BY_BROKER(ords, broker_id)
        rows == SELECT_OPEN_ORDERS_BY_BROKER(ords, broker_id)
        d == check_max_drawdown_for_broker(r, total_equity, starting_eq,
                                           broker_id, peak, TRUE)
    IN [portfolio |-> [total_equity |-> total_equity,
                       daily_pnl |-> SELECT_DAILY_PNL_BY_BROKER(ords, broker_id, now),
                       open_positions |-> [i \in 1..Len(rows) |-> TradeOrder(rows[i])]],
        rm |-> d.rm,
        insert |-> d.insert]

----------------------------------------------------------------------------
\* bot/database/queries.py : statements on the orders table, as row updates

\* a price that could not be fetched (fetch_ticker raised), NULL columns
NoPrice == 0

\* queries.INSERT_ORDER; original_stop_loss starts as the stop loss,
\* remaining_quantity as NULL, tp_stage and sl_trail_stage as 0
INSERT_ORDER(id, order, broker_id) ==
    [id |-> id, broker |-> broker_id, symbol |-> order.symbol,
     direction |-> order.direction, state |-> order.state,
     entry_price |-> order.entry_price, stop_loss |-> order.stop_loss,
     take_profit_1 |-> order.take_profit_1, take_profit_2 |-> order.take_profit_2,
     quantity |-> order.quantity, remaining_quantity |-> 0,
     original_stop_loss |-> order.stop_loss, sl_trail_stage |-> 0, tp_stage |-> 0,
     filled_quantity |-> 0, filled_price |-> NoPrice,
     pnl |-> 0, fees |-> 0, partial_pnl |-> 0, closed_day |-> 0 - 1]

\* queries.UPDATE_ORDER_FILL
UPDATE_ORDER_FILL(row, state, filled_quantity, filled_price) ==
    [row EXCEPT !.state = state, !.filled_quantity = filled_quantity,
                !.filled_price = filled_price]

\* queries.UPDATE_ORDER_CLOSE executed at UTC day now: no condition on the
\* state the row is in
UPDATE_ORDER_CLOSE(row, pnl, fees, exit_price, now) ==
    [row EXCEPT !.state = "closed", !.pnl = pnl, !.fees = fees,
                !.filled_price = exit_price, !.closed_day = now]

\* queries.UPDATE_ORDER_STOP_LOSS(order_id, new_sl, sl_trail_stage)
UPDATE_ORDER_STOP_LOSS(row, new_sl, stage) ==
    [row EXCEPT !.stop_loss = new_sl, !.sl_trail_stage = stage]

\* queries.UPDATE_ORDER_PARTIAL_CLOSE(order_id, new_remaining, pnl, fees,
\* tp_stage, new_sl); the realised PnL of the partial close is kept apart from
\* the pnl column that UPDATE_ORDER_CLOSE writes
UPDATE_ORDER_PARTIAL_CLOSE(row, new_remaining, pnl, fees, stage, new_sl) ==
    [row EXCEPT !.remaining_quantity = new_remaining, !.partial_pnl = pnl,
                !.tp_stage = stage, !.stop_loss = new_sl]

----------------------------------------------------------------------------
\* bot/layer3_execution/engine.py

\* ExecutionEngine._calc_pnl; rate is the fee rate in units of 0.001
calc_pnl(direction, entry_price, exit_price, quantity, rate) ==
    LET gross == IF direction = "long"
                   THEN (exit_price - entry_price) * quantity
                   ELSE (entry_price - exit_price) * quantity
        fees == IF rate = 0 THEN 0
                ELSE ((entry_price * quantity + exit_price * quantity) * rate) \div 1000
    IN [pnl |-> gross - fees, fees |-> fees]

\* float(row.get("remaining_quantity") or quantity)
remaining_qty(row) ==
    IF row.remaining_quantity # 0 THEN row.remaining_quantity ELSE row.quantity

\* price - entry for a long, entry - price for a short: the numerator of progress
gain(row, current_price) ==
    IF row.direction = "long" THEN current_price - row.entry_price
    ELSE row.entry_price - current_price

hit_stop(row, current_price) ==
    IF row.direction = "long" THEN current_price <= row.stop_loss
    ELSE current_price >= row.stop_loss

\* the target counted as hit only when the price is strictly beyond it
hit_target_Strict(row, target, current_price) ==
    IF row.direction = "long" THEN current_price > target
    ELSE current_price < target

hit_target(row, target, current_price) ==
    IF row.direction = "long" THEN current_price >= target
    ELSE current_price <= target

\* monitor_open_positions, stage 0, "Pre-TP1 trailing stop"
stage0_trail(row, current_price, partial_tp) ==
    LET total_range == Abs(row.take_profit_1 - row.entry_price)
        quarter == total_range \div 4
    IN
    IF /\ partial_tp = 0
       /\ row.original_stop_loss # NoPrice
       /\ row.sl_trail_stage < 2
       /\ total_range > 0
      THEN IF 4 * gain(row, current_price) >= 3 * total_range
             THEN UPDATE_ORDER_STOP_LOSS(row,
                      IF row.direction = "long" THEN row.entry_price + quarter
                      ELSE row.entry_price - quarter, 2)
           ELSE IF /\ 2 * gain(row, current_price) >= total_range
                   /\ row.sl_trail_stage < 1
             THEN UPDATE_ORDER_STOP_LOSS(row, row.entry_price, 1)
           ELSE row
      ELSE row

\* stage 1 trailing without the "only if it improves the stop" conditions
stage1_trail_Unguarded(row, current_price) ==
    LET tp2_range == Abs(row.take_profit_2 - row.entry_price)
        tp1_to_tp2 == Abs(row.take_profit_2 - row.take_profit_1)
        quarter == tp1_to_tp2 \div 4
        far_sl == IF row.direction = "long" THEN row.take_profit_1 + quarter
                  ELSE row.take_profit_1 - quarter
    IN
    IF tp2_range > 0
      THEN IF 4 * gain(row, current_price) >= 3 * tp2_range /\ tp1_to_tp2 > 0
             THEN UPDATE_ORDER_STOP_LOSS(row, far_sl, 2)
           ELSE IF 2 * gain(row, current_price) >= tp2_range
             THEN UPDATE_ORDER_STOP_LOSS(row, row.take_profit_1, 2)
           ELSE row
      ELSE row

\* monitor_open_positions, stage 1, "Trailing stop: progress toward TP2"
stage1_trail(row, current_price) ==
    LET tp2_range == Abs(row.take_profit_2 - row.entry_price)
        tp1_to_tp2 == Abs(row.take_profit_2 - row.take_profit_1)
        quarter == tp1_to_tp2 \div 4
        improves(new_sl) == IF row.direction = "long" THEN new_sl > row.stop_loss
                            ELSE new_sl < row.stop_loss
        far_sl == IF row.direction = "long" THEN row.take_profit_1 + quarter
                  ELSE row.take_profit_1 - quarter
    IN
    IF tp2_range > 0
      THEN IF 4 * gain(row, current_price) >= 3 * tp2_range /\ tp1_to_tp2 > 0
             THEN IF improves(far_sl)
                    THEN UPDATE_ORDER_STOP_LOSS(row, far_sl, 2) ELSE row
           ELSE IF 2 * gain(row, current_price) >= tp2_range
             THEN IF improves(row.take_profit_1)
                    THEN UPDATE_ORDER_STOP_LOSS(row, row.take_profit_1, 2) ELSE row
           ELSE row
      ELSE row

\* the row closed at current_price for all its remaining quantity
close_all(row, current_price, now) ==
    LET c == calc_pnl(row.direction, row.entry_price, current_price,
                      remaining_qty(row), fee_rate(row.symbol))
    IN UPDATE_ORDER_CLOSE(row, c.pnl, c.fees, current_price, now)

\* monitor_open_positions, the body of the loop for one row at UTC day now;
\* current_price is tickers.get(symbol), NoPrice when the ticker fetch failed.
\* Returns the row after the pass and the state changes written for it.
monitor_row(row, current_price, partial_tp, now) ==
    LET filled == IF row.state = "submitted"
                    THEN UPDATE_ORDER_FILL(row, "filled", row.quantity, row.entry_price)
                    ELSE row
        fill == IF row.state = "submitted"
                  THEN {[from |-> "submitted", to |-> "filled"]} ELSE {}
        close == {[from |-> "filled", to |-> "closed"]}
        t0 == stage0_trail(filled, current_price, partial_tp)
        t1 == stage1_trail(filled, current_price)
    IN
    IF current_price = NoPrice THEN [row |-> row, updates |-> {}]
    ELSE IF filled.state # "filled" THEN [row |-> filled, updates |-> fill]
    ELSE IF filled.tp_stage = 0
      THEN IF hit_stop(t0, current_price)
             THEN [row |-> close_all(t0, current_price, now), updates |-> fill \cup close]
           ELSE IF hit_target(t0, t0.take_profit_1, current_price)
             THEN IF partial_tp > 0 /\ t0.take_profit_2 # NoPrice
                    THEN LET close_qty == (remaining_qty(t0) * partial_tp) \div 100
                             c == calc_pnl(t0.direction, t0.entry_price, current_price,
                                           close_qty, fee_rate(t0.symbol))
                         IN [row |-> UPDATE_ORDER_PARTIAL_CLOSE(t0,
                                        remaining_qty(t0) - close_qty, c.pnl, c.fees,
                                        1, t0.entry_price),
                             updates |-> fill]
                    ELSE [row |-> close_all(t0, current_price, now),
                          updates |-> fill \cup close]
           ELSE [row |-> t0, updates |-> fill]
    ELSE IF filled.tp_stage = 1 /\ filled.take_profit_2 # NoPrice
      THEN IF hit_stop(t1, current_price) \/ hit_target(t1, t1.take_profit_2, current_price)
             THEN [row |-> close_all(t1, current_price, now), updates |-> fill \cup close]
             ELSE [row |-> t1, updates |-> fill]
    ELSE [row |-> filled, updates |-> fill]

\* ExecutionEngine._close_position_for_reversal(order_id, symbol) at UTC day
\* now; ticker is NoPrice when fetch_ticker raises.  Returns the orders table
\* and the state changes written.
close_position_for_reversal(ords, order_id, symbol, ticker, now) ==
    IF order_id \notin 1..Len(ords) THEN [orders |-> ords, updates |-> {}]
    ELSE IF ticker = NoPrice THEN [orders |-> ords, updates |-> {}]
    ELSE LET row == ords[order_id]
             c == calc_pnl(row.direction, row.entry_price, ticker,
                           remaining_qty(row), fee_rate(symbol))
         IN [orders |-> [ords EXCEPT ![order_id] =
                           UPDATE_ORDER_CLOSE(row, c.pnl, c.fees, ticker, now)],
             updates |-> {[from |-> row.state, to |-> "closed"]}]

\* no TradeOrder (execute_signal returned None)
NoOrder == [id |-> 0, symbol |-> "None", direction |-> "None", state |-> "None"]

\* OrderStateMachine(s).transition(target) followed by reading fsm.state
fsm_transition(s, target) == IF can_transition(s, target) THEN target ELSE s

submit_outcome_Unchecked(state, row) ==
    [order |-> TradeOrder(row), alerts |-> {"send_order_alert"}]

\* ExecutionEngine.execute_signal after the submission: the except branch
\* sends the error alert and returns None, the normal path sends the order
\* alert and returns the order
submit_outcome(state, row) ==
    IF state = "error"
      THEN [order |-> NoOrder, alerts |-> {"send_error_alert"}]
    ELSE [order |-> TradeOrder(row), alerts |-> {"send_order_alert"}]

\* ExecutionEngine.execute_signal(signal, portfolio) on the RiskManager r at UTC
\* day now with the orders table ords.  ticker is the price _close_position_
\* for_reversal fetches (NoPrice: the fetch raises); submit_ok tells whether the
\* live submission to the venue succeeds.  Returns the RiskManager, the orders
\* table, the portfolio object (mutated in place by the reversal step), the
\* state changes written, the TradeOrder returned and the alerts sent.
execute_signal(r, now, ords, portfolio, signal, mode, ticker, submit_ok) ==
    LET broker_id == route_symbol(signal.symbol)
        risk_result == check_entry(r, now, signal, portfolio, broker_id)
        reversal == risk_result.reason = "REVERSAL"
        closed == IF reversal
                    THEN close_position_for_reversal(ords, risk_result.arg,
                                                     signal.symbol, ticker, now)
                    ELSE [orders |-> ords, updates |-> {}]
        Kept(p) == p.id # risk_result.arg
        portfolio1 == IF reversal
                        THEN [portfolio EXCEPT !.open_positions = SelectSeq(@, Kept)]
                        ELSE portfolio
        quantity == calculate_position_size(signal, portfolio1)
        state == IF mode = "live" /\ ~submit_ok
                   THEN fsm_transition("pending", "error")
                   ELSE fsm_transition("pending", "submitted")
        order == [symbol |-> signal.symbol, direction |-> signal.direction,
                  state |-> state, entry_price |-> signal.entry_price,
                  stop_loss |-> signal.stop_loss,
                  take_profit_1 |-> signal.take_profit_1,
                  take_profit_2 |-> signal.take_profit_2, quantity |-> quantity]
        row == INSERT_ORDER(Len(closed.orders) + 1, order, broker_id)
    IN
    IF ~risk_result.approved
      THEN [rm |-> risk_result.rm, orders |-> ords, portfolio |-> portfolio,
            updates |-> {}, order |-> NoOrder, alerts |-> {}]
    ELSE IF quantity <= 0
      THEN [rm |-> risk_result.rm, orders |-> closed.orders, portfolio |-> portfolio1,
            updates |-> closed.updates, order |-> NoOrder, alerts |-> {}]
    ELSE IF mode = "dev"
      THEN [rm |-> risk_result.rm, orders |-> closed.orders, portfolio |-> portfolio1,
            updates |-> closed.updates,
            order |-> [id |-> 0, symbol |-> signal.symbol,
                       direction |-> signal.direction, state |-> "pending"],
            alerts |-> {}]
    ELSE [rm |-> risk_result.rm, orders |-> Append(closed.orders, row),
          portfolio |-> portfolio1, updates |-> closed.updates,
          order |-> submit_outcome(state, row).order,
          alerts |-> submit_outcome(state, row).alerts]

----------------------------------------------------------------------------
\* Spec: the analysis cycle (bot/main.py : analysis_cycle) stepping through
\* its (symbol, timeframe) pairs and the position monitor, over one orders
\* table and one RiskManager, within one UTC day.  Database statements succeed; ticker
\* fetches and live submissions may fail.

\* the levels of a validated signal: entry 100, stop 8 away, TP1 at twice and
\* TP2 at four times the stop distance
SignalLevels ==
    [d \in SignalDirection |->
        IF d = "long"
          THEN [entry_price |-> 100, stop_loss |-> 92,
                take_profit_1 |-> 116, take_profit_2 |-> 132]
          ELSE [entry_price |-> 100, stop_loss |-> 108,
                take_profit_1 |-> 84, take_profit_2 |-> 68]]

\* the DivergenceSignal of a validated detection on symbol
signal_of(symbol, direction) ==
    [symbol |-> symbol, direction |-> direction,
     entry_price |-> SignalLevels[direction].entry_price,
     stop_loss |-> SignalLevels[direction].stop_loss,
     take_profit_1 |-> SignalLevels[direction].take_profit_1,
     take_profit_2 |-> SignalLevels[direction].take_profit_2]

\* prices fetch_ticker returns: at the short target and beyond the long stop,
\* and at the entry
TickerPrices == {84, 100}

\* what the detector and the validator make of one (symbol, timeframe) pair:
\* no validated signal, or a validated signal with its direction
Detections == {"none"} \cup SignalDirection

\* no candle timestamp: a key missing from _last_candle_times or
\* _signaled_candles
NoCandle == 0

PairIds == 1..Len(CycleItems)

Timeframes == {timeframes[k] : k \in 1..Len(timeframes)}

\* candles[-1].timestamp of the fetch for pair k
latest_candle(k) == candle_ts[CycleItems[k].timeframe]

\* _seed_candle_cache: the latest candle of the pairs whose fetch answers,
\* no entry for the others
seed_candle_cache(seeded) ==
    [k \in PairIds |-> IF k \in seeded THEN latest_candle(k) ELSE NoCandle]

\* analysis_cycle, "Determine candle status"
candle_status(last_times, k, latest_ts) ==
    IF last_times[k] # latest_ts THEN "closed" ELSE "forming"

\* analysis_cycle, "Signal-level dedup: skip if we already found a divergence
\* on this candle"
dedup_skip(signaled, k, latest_ts) == signaled[k] = latest_ts

\* the module state of bot/main.py after start-up on the first candle, the
\* candle cache seeded, and the empty signals table
InitCandles ==
    /\ candle_ts = [tf \in Timeframes |-> 1]
    /\ last_candle_times = [k \in PairIds |-> 1]
    /\ signaled_candles = [k \in PairIds |-> NoCandle]
    /\ signal_rows = [k \in PairIds |-> 0]
    /\ boot = [restarts |-> 0, looks |-> 0, no_new_candle |-> TRUE,
               all_signaled |-> FALSE]

\* no execute_signal call in the loop iteration
NoAttempt ==
    [symbol |-> "None", again |-> FALSE, raised |-> FALSE, returned |-> FALSE,
     alerts |-> {}, orders_placed |-> 0, row |-> 0]

\* the records of the analysis cycle before its first run
InitMain ==
    /\ attempted = {}
    /\ last_attempt = NoAttempt

\* no loop iteration in the step, or one that found no divergence
NoItem ==
    [pair |-> 0, found |-> FALSE, direction |-> "None",
     rules_passed |-> FALSE, confidence |-> 0, validated |-> FALSE,
     rows |-> {},
     events |-> <<>>, created |-> 0, consumed |-> 0, matched |-> FALSE,
     executed |-> FALSE]

CycleSymbols == {all_symbols[k] : k \in 1..Len(all_symbols)}

\* the module state of bot/main.py for the multi-timeframe confirmation at
\* start-up, the setting drawn from flags
InitSetups(flags) ==
    /\ use_multi_tf_confirmation \in flags
    /\ clock = 0
    /\ active_setups = [s \in CycleSymbols |-> <<>>]
    /\ setup_count = 0
    /\ detections = 0
    /\ setup_confirmations = <<>>
    /\ last_item = NoItem

\* no trigger of the scheduler yet
NoTrigger == [job |-> "None", outcome |-> "none"]

\* main() with the three jobs added and the scheduler about to be started
InitScheduler ==
    /\ main_pc = "scheduler.start"
    /\ scheduled_running = {}
    /\ stop_event = FALSE
    /\ cancelled = {}
    /\ last_trigger = NoTrigger

\* no track_signal_outcomes call yet
NoRun == [op |-> "none", created |-> FALSE, fetched |-> FALSE,
          updated |-> FALSE, elapsed |-> 0, pre |-> <<>>]

\* no signal to follow
NoTracked ==
    [id |-> 0, direction |-> "None", entry_price |-> NoPrice,
     stop_loss |-> NoPrice, take_profit_1 |-> NoPrice,
     take_profit_2 |-> NoPrice, take_profit_3 |-> NoPrice, created_at |-> 0]

\* the outcome tracker with nothing to follow
IdleTracker ==
    /\ tracked_signal = NoTracked
    /\ signal_outcomes = <<>>
    /\ candles_1h = <<>>
    /\ last_run = NoRun

\* the endpoint categories of IGRateLimiter
Categories == {"data", "trading", "historical"}

\* the coroutines that call the IG client
Callers == {"analysis_cycle", "position_monitor"}

\* a caller that is in no acquire() call
NotAcquiring == [category |-> "None", sleep |-> 0]

\* no pass through the loop of acquire() in the step
NoAcquire == [caller |-> "None", category |-> "None", retry |-> FALSE,
              granted |-> FALSE, fresh |-> 0]

\* IGRateLimiter() with the windows as given, no caller inside acquire()
InitLimiter(filled) ==
    /\ windows = filled
    /\ granted = filled
    /\ acquiring = [c \in Callers |-> NotAcquiring]
    /\ acquire_calls = 0
    /\ last_acquire = NoAcquire

\* IGSession(settings): no tokens yet, the lock free, no request made
InitSession ==
    /\ token = "none"
    /\ session_lock = "None"
    /\ session_pc = [j \in {"analysis_cycle", "position_monitor",
                            "outcome_tracker"} |-> "idle"]

\* no adapter call in progress
NoCallInProgress ==
    [broker |-> "None", method |-> "None", attempts |-> <<>>,
     state |-> "idle"]

\* no execute_signal call at its step 4, nothing placed at the venue
InitLive ==
    /\ adapter_call = NoCallInProgress
    /\ venue = [entry |-> 0, stop |-> 0, cancelled |-> 0]
    /\ live_exec = [pc |-> "idle", broker |-> "None", state |-> "pending"]

\* the tracker and the broker adapters before any call
InitServices ==
    /\ IdleTracker
    /\ InitLimiter([c \in Categories |-> <<>>])
    /\ InitSession
    /\ InitLive

\* the router after main() registered the brokers in routers, no cycle and
\* no monitor pass having run
InitProcCore(routers) ==
    /\ registered \in routers
    /\ result_errors = 0
    /\ cycle_result = "none"
    /\ last_fault = "none"
    /\ last_monitored = {}
    /\ monitor_failed = 0
    /\ InitScheduler

\* the same, with the tracker and the broker adapters before any call
InitProc(routers) ==
    /\ InitProcCore(routers)
    /\ InitServices

\* no execute_signal call in the step
NoExec == [reversal |-> FALSE, old_id |-> 0, new_id |-> 0, symbol |-> "None",
           ticker |-> NoPrice]

EmptyPortfolio == [total_equity |-> 0, daily_pnl |-> 0, open_positions |-> <<>>]

BrokerIds == {all_brokers[k] : k \in 1..Len(all_brokers)}

\* the engine, the empty orders table and the module state of bot/main.py at
\* start-up, with the settings drawn from modes and pcts
InitEngineCore(modes, pcts) ==
    /\ trading_mode \in modes
    /\ tp1_close_pct \in pcts
    /\ orders = <<>>
    /\ snapshot_peak = [b \in BrokerIds |-> 0]
    /\ cycle_pc = "idle"
    /\ cycle_idx = 1
    /\ portfolio_cache = [b \in BrokerIds |-> EmptyPortfolio]
    /\ traded_symbols = {}
    /\ last_updates = {}
    /\ last_exec = NoExec
    /\ last_fills = {}
    /\ last_prices = <<>>
    /\ InitCandles
    /\ InitMain

\* the same with use_multi_tf_confirmation off, the default
InitEngine(modes, pcts) ==
    /\ InitEngineCore(modes, pcts)
    /\ InitSetups({FALSE})
    /\ InitProc({BrokerIds})

RECURSIVE load_portfolios(_, _)
\* analysis_cycle, "Get per-broker portfolio states and record snapshots":
\* brokers k.. of all_brokers, acc holding the RiskManager, the
\* circuit_breaker_events rows, the snapshot peaks and the portfolio cache
load_portfolios(k, acc) ==
    IF k > Len(all_brokers) THEN acc
    ELSE LET bid == all_brokers[k]
             g == get_portfolio_state(acc.rm, today, orders, acc.peaks[bid], bid)
         IN load_portfolios(k + 1,
              [rm |-> g.rm,
               events |-> IF g.insert THEN Append(acc.events, "MAX DRAWDOWN")
                          ELSE acc.events,
               peaks |-> [acc.peaks EXCEPT
                            ![bid] = Max2(@, g.portfolio.total_equity)],
               cache |-> [acc.cache EXCEPT ![bid] = g.portfolio]])

\* analysis_cycle up to the loop over the symbols, _expire_setups apart
CycleStartBody ==
    /\ cycle_pc = "idle"
    /\ LET acc == load_portfolios(1, [rm |-> rm, events |-> cb_events,
                                      peaks |-> snapshot_peak,
                                      cache |-> portfolio_cache])
       IN /\ rm' = acc.rm
          /\ cb_events' = acc.events
          /\ snapshot_peak' = acc.peaks
          /\ portfolio_cache' = acc.cache
    /\ cycle_pc' = "running"
    /\ cycle_idx' = 1
    /\ traded_symbols' = {}
    /\ last_updates' = {}
    /\ last_exec' = NoExec
    /\ last_fills' = {}
    /\ last_prices' = <<>>
    /\ UNCHANGED <<today, trading_mode, tp1_close_pct, orders, fsmVars, rkVars,
                   candleVars, mainVars>>

\* analysis_cycle up to the loop over the symbols, use_multi_tf_confirmation
\* off
CycleStart ==
    /\ CycleStartBody
    /\ UNCHANGED <<setupVars, procVars>>

\* analysis_cycle, the execution section of one iteration of the loop body
\* for CycleItems[cycle_idx] (l.471-494): has_signal says that a validated
\* signal reaches the section, signal is that signal
CycleItemSignal(has_signal, signal, ticker, submit_ok) ==
    /\ cycle_pc = "running"
    /\ cycle_idx <= Len(CycleItems)
    /\ has_signal => Len(orders) < MaxOrders
    /\ LET symbol == CycleItems[cycle_idx].symbol
           broker_id == route_symbol(symbol)
           executes == /\ has_signal
                       /\ symbol \notin traded_symbols
           ex == execute_signal(rm, today, orders, portfolio_cache[broker_id],
                                signal, trading_mode, ticker, submit_ok)
           reads_ticker ==
               /\ executes
               /\ check_entry(rm, today, signal, portfolio_cache[broker_id],
                              broker_id).reason = "REVERSAL"
       IN /\ ~reads_ticker => ticker = NoPrice
          /\ ~(executes /\ trading_mode = "live") => submit_ok
          /\ IF executes
               THEN /\ rm' = ex.rm
                    /\ orders' = ex.orders
                    /\ last_updates' = ex.updates
                    /\ last_exec' =
                         [reversal |-> reads_ticker,
                          old_id |-> IF reads_ticker
                                       THEN check_entry(rm, today, signal,
                                              portfolio_cache[broker_id],
                                              broker_id).arg
                                       ELSE 0,
                          new_id |-> IF Len(ex.orders) > Len(orders)
                                       THEN Len(ex.orders) ELSE 0,
                          symbol |-> symbol, ticker |-> ticker]
                    /\ portfolio_cache' =
                         [portfolio_cache EXCEPT ![broker_id] =
                            IF ex.order # NoOrder
                              THEN [ex.portfolio EXCEPT !.open_positions =
                                      Append(@, ex.order)]
                              ELSE ex.portfolio]
                    /\ traded_symbols' = IF ex.order # NoOrder
                                           THEN traded_symbols \cup {symbol}
                                           ELSE traded_symbols
               ELSE /\ last_updates' = {}
                    /\ last_exec' = NoExec
                    /\ UNCHANGED <<rm, orders, portfolio_cache, traded_symbols>>
    /\ cycle_idx' = cycle_idx + 1
    /\ last_fills' = {}
    /\ last_prices' = <<>>
    /\ UNCHANGED <<today, cb_events, trading_mode, tp1_close_pct, snapshot_peak,
                   cycle_pc, fsmVars, rkVars>>


\* analysis_cycle, one iteration of the loop body for CycleItems[cycle_idx].
\* detection is what candle dedup, detector and validator leave of the pair
\* ("none": skipped, no divergence, or rejected); a new latest candle may
\* appear before any look, so the dedup never rules a detection out.  ticker
\* and submit_ok are the inputs of execute_signal, fixed when it does not
\* read them.  use_multi_tf_confirmation is off (the default).
CycleItemBody(detection, ticker, submit_ok) ==
    CycleItemSignal(detection \in SignalDirection,
                    signal_of(CycleItems[cycle_idx].symbol, detection),
                    ticker, submit_ok)

\* the loop iteration with the candle dedup left out of the picture
CycleItem(detection, ticker, submit_ok) ==
    /\ CycleItemBody(detection, ticker, submit_ok)
    /\ UNCHANGED <<candleVars, mainVars, setupVars, procVars>>

\* the loop iteration with a record of its execute_signal call: whether the
\* symbol was attempted before in this cycle, whether the submission raised,
\* whether a TradeOrder came back, the alerts sent by execute_signal and by
\* the cycle, the increment of result.orders_placed and the row inserted
CycleItemAttempt(detection, ticker, submit_ok) ==
    /\ CycleItemBody(detection, ticker, submit_ok)
    /\ LET symbol == CycleItems[cycle_idx].symbol
           broker_id == route_symbol(symbol)
           portfolio == portfolio_cache[broker_id]
           executes == /\ detection \in SignalDirection
                       /\ symbol \notin traded_symbols
           signal == signal_of(symbol, detection)
           ex == execute_signal(rm, today, orders, portfolio, signal,
                                trading_mode, ticker, submit_ok)
           risk_result == check_entry(rm, today, signal, portfolio, broker_id)
           Kept(p) == p.id # risk_result.arg
           sized == IF risk_result.reason = "REVERSAL"
                      THEN [portfolio EXCEPT !.open_positions = SelectSeq(@, Kept)]
                    ELSE portfolio
           before == IF cycle_idx = 1 THEN {} ELSE attempted
       IN /\ attempted' = IF executes THEN before \cup {symbol} ELSE before
          /\ last_attempt' =
               IF executes
                 THEN [symbol |-> symbol,
                       again |-> symbol \in before,
                       raised |-> /\ trading_mode = "live" /\ ~submit_ok
                                  /\ risk_result.approved
                                  /\ calculate_position_size(signal, sized) > 0,
                       returned |-> ex.order # NoOrder,
                       alerts |-> ex.alerts \cup
                                    (IF ex.order # NoOrder
                                       THEN {"send_signal_alert"} ELSE {}),
                       orders_placed |-> IF ex.order # NoOrder THEN 1 ELSE 0,
                       row |-> IF Len(ex.orders) > Len(orders)
                                 THEN Len(ex.orders) ELSE 0]
               ELSE NoAttempt
    /\ UNCHANGED <<candleVars, setupVars, procVars>>

\* the loop iteration with its candle dedup.  fetch_ok: fetch_ohlcv answers
\* with enough candles; detected: signal.divergence_detected of the detector,
\* were it called; detection: what the validator leaves of a detected signal;
\* persist_ok: the INSERT of _persist_signal succeeds.
CandleCycleItem(fetch_ok, detected, detection, persist_ok, ticker, submit_ok) ==
    /\ cycle_pc = "running"
    /\ cycle_idx <= Len(CycleItems)
    /\ LET k == cycle_idx
           latest_ts == latest_candle(k)
           closed == candle_status(last_candle_times, k, latest_ts) = "closed"
           cleared == IF closed THEN [signaled_candles EXCEPT ![k] = NoCandle]
                      ELSE signaled_candles
           skipped == fetch_ok /\ dedup_skip(cleared, k, latest_ts)
           found == fetch_ok /\ ~skipped /\ detected
           persisted == found /\ persist_ok
       IN /\ ~found => detection = "none"
          /\ (~fetch_ok \/ skipped) => ~detected
          /\ ~found => persist_ok
          /\ last_candle_times' = IF fetch_ok
                                    THEN [last_candle_times EXCEPT ![k] = latest_ts]
                                  ELSE last_candle_times
          /\ signaled_candles' = IF ~fetch_ok THEN signaled_candles
                                 ELSE IF found THEN [cleared EXCEPT ![k] = latest_ts]
                                 ELSE cleared
          /\ signal_rows' = IF persisted THEN [signal_rows EXCEPT ![k] = @ + 1]
                            ELSE signal_rows
          /\ boot' = IF boot.looks < Len(CycleItems)
                       THEN [boot EXCEPT !.looks = @ + 1]
                     ELSE boot
    /\ UNCHANGED <<candle_ts, mainVars, setupVars, procVars>>
    /\ CycleItemBody(detection, ticker, submit_ok)

\* the exchanges open the next candle of a timeframe
CandleClose(tf) ==
    /\ candle_ts[tf] < MaxCandle
    /\ candle_ts' = [candle_ts EXCEPT ![tf] = @ + 1]
    /\ signal_rows' = [k \in PairIds |-> IF CycleItems[k].timeframe = tf THEN 0
                                         ELSE signal_rows[k]]
    /\ boot' = [boot EXCEPT !.no_new_candle = FALSE]
    /\ UNCHANGED <<last_candle_times, signaled_candles>>
    /\ UNCHANGED <<riskVars, fsmVars, rkVars, trading_mode, tp1_close_pct,
                   orders, snapshot_peak, cycle_pc, cycle_idx, portfolio_cache,
                   traded_symbols, last_updates, last_exec, last_fills,
                   last_prices, mainVars, setupVars, procVars>>

\* the process ends and main() starts it again: fresh RiskManager and module
\* state, _seed_candle_cache for the pairs in seeded, the database kept.  The
\* initial analysis cycle follows as the steps of the next cycle.
Restart(seeded) ==
    /\ boot.restarts < MaxRestarts
    /\ rm' = InitRiskManager
    /\ cycle_pc' = "idle"
    /\ cycle_idx' = 1
    /\ portfolio_cache' = [b \in BrokerIds |-> EmptyPortfolio]
    /\ traded_symbols' = {}
    /\ last_updates' = {}
    /\ last_exec' = NoExec
    /\ last_fills' = {}
    /\ last_prices' = <<>>
    /\ last_candle_times' = seed_candle_cache(seeded)
    /\ signaled_candles' = [k \in PairIds |-> NoCandle]
    /\ boot' = [restarts |-> boot.restarts + 1, looks |-> 0,
                no_new_candle |-> TRUE,
                all_signaled |-> \A k \in PairIds :
                                    signaled_candles[k] = latest_candle(k)]
    /\ UNCHANGED <<today, cb_events, trading_mode, tp1_close_pct, orders,
                   snapshot_peak, candle_ts, signal_rows, fsmVars, rkVars,
                   mainVars, use_multi_tf_confirmation, clock,
                   setup_count, detections, setup_confirmations, last_item,
                   procVars>>
    /\ active_setups' = [s \in CycleSymbols |-> <<>>]

\* analysis_cycle after the loop: the cycle result is written and the cycle's
\* local portfolio_cache and traded_symbols are dropped
CycleEndBody ==
    /\ cycle_pc = "running"
    /\ cycle_idx > Len(CycleItems)
    /\ cycle_pc' = "idle"
    /\ cycle_idx' = 1
    /\ portfolio_cache' = [b \in BrokerIds |-> EmptyPortfolio]
    /\ traded_symbols' = {}
    /\ last_updates' = {}
    /\ last_exec' = NoExec
    /\ last_fills' = {}
    /\ last_prices' = <<>>
    /\ UNCHANGED <<rm, today, cb_events, trading_mode, tp1_close_pct, orders,
                   snapshot_peak, fsmVars, rkVars, candleVars, mainVars,
                   setupVars>>

\* the same, no exception having left the loop
CycleEnd ==
    /\ CycleEndBody
    /\ UNCHANGED procVars

\* the rows a monitor pass with these tickers moves from submitted to filled
MonitorFills(tickers) ==
    {i \in 1..Len(orders) : /\ orders[i].state = "submitted"
                            /\ tickers[orders[i].symbol] # NoPrice}

\* position_monitor -> ExecutionEngine.monitor_open_positions, one pass;
\* tickers[s] is the price fetched for symbol s, NoPrice when the fetch raises.
\* venue_filled holds the orders the venue reports as filled in live mode; the
\* pass makes no call that reads it.
MonitorPass(tickers, venue_filled) ==
    /\ venue_filled \subseteq MonitorFills(tickers)
    /\ trading_mode # "live" => venue_filled = {}
    /\ last_fills' = {[id |-> i, confirmed |-> i \in venue_filled] :
                        i \in MonitorFills(tickers)}
    /\ last_prices' = [i \in 1..Len(orders) |->
                         IF orders[i].state \notin not_open_states
                           THEN tickers[orders[i].symbol] ELSE NoPrice]
    /\ LET res == [i \in 1..Len(orders) |->
                     IF orders[i].state \notin not_open_states
                       THEN monitor_row(orders[i], tickers[orders[i].symbol],
                                        tp1_close_pct, today)
                       ELSE [row |-> orders[i], updates |-> {}]]
       IN /\ orders' = [i \in 1..Len(orders) |-> res[i].row]
          /\ last_updates' = UNION {res[i].updates : i \in 1..Len(orders)}
    /\ last_exec' = NoExec
    /\ UNCHANGED <<rm, today, cb_events, trading_mode, tp1_close_pct, snapshot_peak,
                   cycle_pc, cycle_idx, portfolio_cache, traded_symbols,
                   fsmVars, rkVars, candleVars, mainVars, setupVars, procVars>>

Next ==
    \/ CycleStart
    \/ \E detection \in Detections, ticker \in TickerPrices \cup {NoPrice},
          submit_ok \in BOOLEAN :
            CycleItem(detection, ticker, submit_ok)
    \/ CycleEnd
    \/ \E tickers \in [CycleSymbols -> TickerPrices \cup {NoPrice}],
             venue_filled \in SUBSET (1..MaxOrders) :
            MonitorPass(tickers, venue_filled)

----------------------------------------------------------------------------
\* SpecMonitor: the position monitor alone, passing over an orders table that
\* holds one order as execute_signal inserts it, with ticker prices at every
\* level the stages compare against.

\* prices fetch_ticker returns: the entry, the stops, the targets and the
\* levels the trailing stops move to, of a long and of a short signal
MonitorPrices ==
    {68, 76, 80, 84, 88, 92, 96, 100, 104, 108, 112, 116, 120, 124, 132}

\* the row execute_signal inserts in paper mode for the first validated signal
\* of a broker: sized on the starting equity; has_tp2 tells whether the signal
\* carries a take_profit_2
first_order(symbol, direction, has_tp2) ==
    LET signal == signal_of(symbol, direction)
        portfolio == [total_equity |-> starting_equity(route_symbol(symbol)),
                      daily_pnl |-> 0, open_positions |-> <<>>]
        order == [symbol |-> symbol, direction |-> direction,
                  state |-> fsm_transition("pending", "submitted"),
                  entry_price |-> signal.entry_price,
                  stop_loss |-> signal.stop_loss,
                  take_profit_1 |-> signal.take_profit_1,
                  take_profit_2 |-> IF has_tp2 THEN signal.take_profit_2
                                    ELSE NoPrice,
                  quantity |-> calculate_position_size(signal, portfolio)]
    IN INSERT_ORDER(1, order, route_symbol(symbol))

\* the settings and the orders table the monitor starts on; the statement
\* INSERT_ORDER names no original_stop_loss column, so the column holds the
\* stop loss or NULL, whichever the table definition makes of it
InitMonitor ==
    /\ trading_mode = "paper"
    /\ tp1_close_pct \in {0, 50, 100}
    /\ \E direction \in SignalDirection, has_tp2 \in BOOLEAN,
          has_original_sl \in BOOLEAN :
          LET row == first_order(all_symbols[1], direction, has_tp2)
          IN orders = <<IF has_original_sl THEN row
                        ELSE [row EXCEPT !.original_stop_loss = NoPrice]>>
    /\ snapshot_peak = [b \in BrokerIds |-> 0]
    /\ cycle_pc = "idle"
    /\ cycle_idx = 1
    /\ portfolio_cache = [b \in BrokerIds |-> EmptyPortfolio]
    /\ traded_symbols = {}
    /\ last_updates = {}
    /\ last_exec = NoExec
    /\ last_fills = {}
    /\ last_prices = <<>>
    /\ InitCandles
    /\ InitMain
    /\ InitSetups({FALSE})
    /\ InitProc({BrokerIds})

NextMonitor ==
    \E tickers \in [CycleSymbols -> MonitorPrices \cup {NoPrice}] :
        MonitorPass(tickers, {})

\* the analysis cycles alone, every trading mode
NextCycle ==
    \/ CycleStart
    \/ \E detection \in Detections, ticker \in TickerPrices \cup {NoPrice},
          submit_ok \in BOOLEAN :
            CycleItemAttempt(detection, ticker, submit_ok)
    \/ CycleEnd

\* the analysis cycles of a process that is restarted, over the candles of
\* the exchanges
NextCandles ==
    \/ CycleStart
    \/ \E fetch_ok \in BOOLEAN, detected \in BOOLEAN, detection \in Detections,
          persist_ok \in BOOLEAN :
            CandleCycleItem(fetch_ok, detected, detection, persist_ok, NoPrice,
                            TRUE)
    \/ CycleEnd
    \/ \E tf \in Timeframes : CandleClose(tf)
    \/ \E seeded \in SUBSET PairIds : Restart(seeded)

----------------------------------------------------------------------------
\* SpecSetups: the analysis cycles of a paper-mode process with the candle
\* dedup and the multi-timeframe confirmation (bot/main.py, "Phase 2"), over a
\* clock that opens a new candle of both timeframes every four hours.
\* fetch_ohlcv answers, the INSERT of a signal succeeds, the clock stands
\* still while a cycle runs and a cycle has looked at every pair before the
\* next candle opens (cycles run every minute).

\* Settings.setup_expiry_hours
setup_expiry_hours == 24

\* Settings.min_risk_reward
min_risk_reward == 2

\* hours between two steps of the clock: one candle of the "4h" timeframe
CandleHours == 4

\* _find_matching_setup and _build_confirmed_signal returning None
NoSetup == [id |-> 0, direction |-> "None", expires_at |-> 0, stop_loss |-> 0]

NoSignal ==
    [symbol |-> "None", direction |-> "None", entry_price |-> 0,
     stop_loss |-> 0, take_profit_1 |-> 0, take_profit_2 |-> 0,
     timeframe |-> "None"]

\* the stop of the 4h signal an ActiveSetup keeps: on the side of the 1h
\* entry (100) the direction asks for, or, the price having moved, on the
\* other side
SetupStops ==
    [d \in SignalDirection |-> IF d = "long" THEN {92, 104} ELSE {96, 108}]

\* Settings.binance_min_confidence, oanda_min_confidence, ig_min_confidence,
\* in percent
binance_min_confidence == 70

oanda_min_confidence == 70

ig_min_confidence == 70

\* Settings.get_min_confidence
get_min_confidence(broker_id) ==
    IF broker_id = "oanda" THEN oanda_min_confidence
    ELSE IF broker_id = "ig" THEN ig_min_confidence
    ELSE binance_min_confidence

\* signal.confidence of a detected signal, in percent: below and at the
\* threshold
Confidences == {60, 70}

\* validation.passed after validate_signal and the per-broker confidence
\* check; rules_passed is validate_signal(...).passed
validation_passed_RulesOnly(rules_passed, confidence, min_confidence) ==
    rules_passed

validation_passed(rules_passed, confidence, min_confidence) ==
    rules_passed /\ ~(confidence < min_confidence)

\* the pairs of CycleItems the detector finds divergences on: both
\* timeframes of the first symbol and the 1h timeframe of the second
SetupSignalPairs ==
    {k \in PairIds : \/ CycleItems[k].symbol = all_symbols[1]
                     \/ CycleItems[k].timeframe = "1h"}

\* _expire_setups: every list keeps the setups with now < expires_at (a key
\* without setups is an empty list here)
expire_setups(store, now) ==
    [s \in DOMAIN store |->
        LET Live(setup) == now < setup.expires_at
        IN SelectSeq(store[s], Live)]

\* _find_matching_setup: the first setup of the symbol with the direction
find_matching_setup_AnyDirection(store, symbol, direction) ==
    IF store[symbol] = <<>> THEN NoSetup ELSE store[symbol][1]

find_matching_setup(store, symbol, direction) ==
    LET setups == store[symbol]
        hits == {i \in 1..Len(setups) : setups[i].direction = direction}
    IN IF hits = {} THEN NoSetup ELSE setups[Min(hits)]

\* _active_setups[setup_key].remove(matching_setup): the list without the
\* first element equal to the setup
remove_setup_Kept(setups, setup) == setups

remove_setup(setups, setup) ==
    LET hits == {i \in 1..Len(setups) : setups[i] = setup}
        first == Min(hits)
    IN IF hits = {} THEN setups
       ELSE [i \in 1..(Len(setups) - 1) |->
               IF i < first THEN setups[i] ELSE setups[i + 1]]

\* _build_confirmed_signal: entry of the 1h signal, stop of the 4h setup or,
\* when that is on the wrong side of the entry, of the 1h signal; targets at
\* min_risk_reward, 1.5 and 2 times that
build_confirmed_signal(setup, signal_1h) ==
    LET entry == signal_1h.entry_price
        long == setup.direction = "long"
        wrong_side(sl) == IF long THEN sl >= entry ELSE sl <= entry
        stop_loss == IF wrong_side(setup.stop_loss) THEN signal_1h.stop_loss
                     ELSE setup.stop_loss
        risk == IF long THEN entry - stop_loss ELSE stop_loss - entry
        tp(n, d) == IF long THEN entry + (risk * min_risk_reward * n) \div d
                    ELSE entry - (risk * min_risk_reward * n) \div d
    IN IF wrong_side(stop_loss) THEN NoSignal
       ELSE [symbol |-> signal_1h.symbol, direction |-> setup.direction,
             entry_price |-> entry, stop_loss |-> stop_loss,
             take_profit_1 |-> tp(1, 1), take_profit_2 |-> tp(3, 2),
             timeframe |-> "4h+1h"]

\* analysis_cycle up to the loop over the symbols, with _expire_setups when
\* use_multi_tf_confirmation is on
SetupCycleStart ==
    /\ CycleStartBody
    /\ active_setups' = IF use_multi_tf_confirmation
                          THEN expire_setups(active_setups, clock)
                        ELSE active_setups
    /\ last_item' = NoItem
    /\ UNCHANGED <<use_multi_tf_confirmation, clock, setup_count,
                   detections, setup_confirmations, procVars>>

\* analysis_cycle, one iteration of the loop body for CycleItems[cycle_idx]:
\* candle dedup, detector, validation, _persist_signal, the multi-timeframe
\* branch and the execution section.  detected, direction: the answer of
\* analyze_divergence, were it called; rules_passed: validate_signal passes;
\* confidence: signal.confidence; persist_ok: the INSERT of the detected
\* signal succeeds; stop: the stop of a 4h signal kept as a setup; ticker:
\* the price a reversal close reads.
SetupCycleItem(detected, direction, rules_passed, confidence, persist_ok, stop, ticker) ==
    LET k == cycle_idx
        symbol == CycleItems[k].symbol
        min_confidence == get_min_confidence(route_symbol(symbol))
        passed == validation_passed(rules_passed, confidence, min_confidence)
        timeframe == CycleItems[k].timeframe
        latest_ts == latest_candle(k)
        closed == candle_status(last_candle_times, k, latest_ts) = "closed"
        cleared == IF closed THEN [signaled_candles EXCEPT ![k] = NoCandle]
                   ELSE signaled_candles
        skipped == dedup_skip(cleared, k, latest_ts)
        found == ~skipped /\ detected
        validated == found /\ passed
        multi == use_multi_tf_confirmation
        creates == validated /\ multi /\ timeframe = "4h"
        looks_up == validated /\ multi /\ timeframe = "1h"
        signal == signal_of(symbol, direction)
        matching_setup == find_matching_setup(active_setups, symbol, direction)
        confirmed == build_confirmed_signal(matching_setup, signal)
        confirms == /\ looks_up
                    /\ matching_setup # NoSetup
                    /\ confirmed # NoSignal
        reaches == validated /\ (~multi \/ confirms)
        executes == reaches /\ symbol \notin traded_symbols
        setup == [id |-> setup_count + 1, direction |-> direction,
                  expires_at |-> clock + setup_expiry_hours,
                  stop_loss |-> stop]
    IN /\ cycle_pc = "running"
       /\ cycle_idx <= Len(CycleItems)
       /\ skipped => ~detected
       /\ detected => k \in SetupSignalPairs
       /\ ~detected => direction = "long" /\ rules_passed
       /\ ~(detected /\ rules_passed) => confidence = min_confidence
       /\ ~found => persist_ok
       /\ stop \in SetupStops[direction]
       /\ ~creates => stop = Min(SetupStops[direction])
       /\ detected => detections < MaxSignals
       /\ detected => latest_ts <= MaxSignalCandle
       /\ detections' = IF found THEN detections + 1 ELSE detections
       /\ last_candle_times' = [last_candle_times EXCEPT ![k] = latest_ts]
       /\ signaled_candles' = IF found THEN [cleared EXCEPT ![k] = latest_ts]
                              ELSE cleared
       /\ active_setups' =
            IF creates
              THEN [active_setups EXCEPT ![symbol] = Append(@, setup)]
            ELSE IF confirms
              THEN [active_setups EXCEPT
                      ![symbol] = remove_setup(@, matching_setup)]
            ELSE active_setups
       /\ setup_count' = IF creates THEN setup_count + 1 ELSE setup_count
       /\ CycleItemSignal(reaches, IF confirms THEN confirmed ELSE signal,
                          ticker, TRUE)
       /\ setup_confirmations' =
            IF creates
              THEN Append(setup_confirmations,
                          [symbol |-> symbol, direction |-> direction,
                           signals |-> 0, orders |-> 0])
            ELSE IF confirms
              THEN [setup_confirmations EXCEPT
                      ![matching_setup.id] =
                         [@ EXCEPT !.signals = @ + 1,
                                   !.orders = IF Len(orders') > Len(orders)
                                                THEN @ + 1 ELSE @]]
            ELSE setup_confirmations
       /\ last_item' =
            [pair |-> k,
             found |-> found,
             direction |-> IF found THEN direction ELSE "None",
             rules_passed |-> found /\ rules_passed,
             confidence |-> IF found THEN confidence ELSE 0,
             validated |-> validated,
             rows |-> (IF found /\ persist_ok
                         THEN {[timeframe |-> timeframe,
                                validated |-> passed]}
                       ELSE {})
                      \cup (IF confirms
                               THEN {[timeframe |-> confirmed.timeframe,
                                      validated |-> TRUE]}
                             ELSE {}),
             events |-> (IF found
                           THEN <<"validate_signal", "persist_signal">>
                         ELSE <<>>)
                        \o (IF creates THEN <<"setup_created">> ELSE <<>>)
                        \o (IF looks_up
                              THEN <<"find_matching_setup">> ELSE <<>>)
                        \o (IF confirms
                              THEN <<"remove_setup", "persist_confirmed">>
                            ELSE <<>>)
                        \o (IF executes THEN <<"execute_signal">> ELSE <<>>),
             created |-> IF creates THEN setup.id ELSE 0,
             consumed |-> IF confirms THEN matching_setup.id ELSE 0,
             matched |-> looks_up /\ matching_setup # NoSetup,
             executed |-> executes]
       /\ UNCHANGED <<candle_ts, signal_rows, boot, mainVars,
                      use_multi_tf_confirmation, clock, procVars>>

\* four hours pass between two cycles: the exchanges open the next candle of
\* both timeframes.  Past the candles with divergences the run is followed
\* while setups wait in the store.
Tick ==
    /\ cycle_pc = "idle"
    /\ clock + CandleHours <= MaxClock
    /\ \/ \E tf \in Timeframes : candle_ts[tf] < MaxSignalCandle
       \/ \E s \in CycleSymbols : active_setups[s] # <<>>
    /\ \A k \in PairIds : last_candle_times[k] = latest_candle(k)
    /\ clock' = clock + CandleHours
    /\ candle_ts' = [tf \in Timeframes |-> candle_ts[tf] + 1]
    /\ last_item' = NoItem
    /\ UNCHANGED <<last_candle_times, signaled_candles, signal_rows, boot>>
    /\ UNCHANGED <<riskVars, fsmVars, rkVars, trading_mode, tp1_close_pct,
                   orders, snapshot_peak, cycle_pc, cycle_idx, portfolio_cache,
                   traded_symbols, last_updates, last_exec, last_fills,
                   last_prices, mainVars, use_multi_tf_confirmation,
                   active_setups, setup_count, detections,
                   setup_confirmations, procVars>>

NextSetups ==
    \/ SetupCycleStart
    \/ \E detected \in BOOLEAN, direction \in SignalDirection,
          rules_passed \in BOOLEAN, confidence \in Confidences,
          stop \in UNION {SetupStops[d] : d \in SignalDirection},
          ticker \in TickerPrices \cup {NoPrice} :
            SetupCycleItem(detected, direction, rules_passed, confidence,
                           TRUE, stop, ticker)
    \/ CycleEnd
    \/ Tick

----------------------------------------------------------------------------
\* SpecFaults: the analysis cycles of a paper-mode process in which the calls
\* of a loop iteration may raise, over a router that holds the brokers main()
\* registered.

\* the routers main() builds: MarketDataClient always, OandaClient when
\* settings.oanda_enabled; all_symbols holds settings.oanda_symbols either way
RouterSets == {{"binance"}, {"binance", "oanda"}}

\* the calls inside the try of the loop body that may raise; a raising call
\* leaves the tables as they are
FaultStages ==
    {"fetch_ohlcv", "compute_indicators", "analyze_divergence",
     "validate_signal", "execute_signal"}

\* BrokerRouter.get_broker(symbol) raises KeyError
get_broker_raises(brokers, symbol) == route_symbol(symbol) \notin brokers

\* analysis_cycle up to the loop over the symbols, with a fresh result
FaultCycleStart ==
    /\ CycleStartBody
    /\ result_errors' = 0
    /\ last_fault' = "none"
    /\ UNCHANGED <<registered, cycle_result, last_monitored, monitor_failed,
                   schedVars, serviceVars, setupVars>>

\* analysis_cycle, one iteration of the loop body for CycleItems[cycle_idx],
\* with router.get_broker(symbol) ahead of the first timeframe of a symbol
\* (l.305-306, outside the try) and the try/except of l.315-500 around the
\* rest.  fault is the call that raises, "none" when none does.
FaultCycleItem(fault, detection, ticker) ==
    LET symbol == CycleItems[cycle_idx].symbol
        new_symbol == \/ cycle_idx = 1
                      \/ CycleItems[cycle_idx - 1].symbol # symbol
    IN /\ cycle_pc = "running"
       /\ cycle_idx <= Len(CycleItems)
       /\ IF new_symbol /\ get_broker_raises(registered, symbol)
            THEN /\ fault = "get_broker"
                 /\ detection = "none"
                 /\ ticker = NoPrice
                 /\ cycle_pc' = "idle"
                 /\ cycle_idx' = 1
                 /\ cycle_result' = "raised"
                 /\ last_fault' = fault
                 /\ portfolio_cache' = [b \in BrokerIds |-> EmptyPortfolio]
                 /\ traded_symbols' = {}
                 /\ last_updates' = {}
                 /\ last_exec' = NoExec
                 /\ last_fills' = {}
                 /\ last_prices' = <<>>
                 /\ UNCHANGED <<rm, today, cb_events, trading_mode,
                                tp1_close_pct, orders, snapshot_peak, fsmVars,
                                rkVars, result_errors>>
          ELSE IF fault = "none"
            THEN /\ CycleItemBody(detection, ticker, TRUE)
                 /\ last_fault' = "none"
                 /\ UNCHANGED <<cycle_result, result_errors>>
          ELSE /\ fault \in FaultStages
               /\ detection = "none"
               /\ CycleItemBody("none", ticker, TRUE)
               /\ last_fault' = fault
               /\ result_errors' = result_errors + 1
               /\ UNCHANGED cycle_result
       /\ UNCHANGED <<registered, last_monitored, monitor_failed, schedVars,
                      serviceVars, candleVars, mainVars, setupVars>>

\* analysis_cycle after the loop: the completion step
FaultCycleEnd ==
    /\ CycleEndBody
    /\ cycle_result' = "completed"
    /\ last_fault' = "none"
    /\ UNCHANGED <<registered, result_errors, last_monitored, monitor_failed,
                   schedVars, serviceVars>>

NextFaults ==
    \/ FaultCycleStart
    \/ \E fault \in FaultStages \cup {"none", "get_broker"},
          detection \in Detections, ticker \in TickerPrices \cup {NoPrice} :
            FaultCycleItem(fault, detection, ticker)
    \/ FaultCycleEnd

----------------------------------------------------------------------------
\* SpecMonitorFaults: the analysis cycles of a paper-mode process and a
\* position monitor in which a database statement of one row may raise.

\* position_monitor -> ExecutionEngine.monitor_open_positions, one pass over
\* the rows of SELECT_OPEN_ORDERS, newest first.  failed is the row whose
\* first statement raises (0: none does): the exception leaves the loop and
\* the pass, and position_monitor logs it.
MonitorPassFaulty(tickers, failed) ==
    LET open == {i \in 1..Len(orders) : orders[i].state \notin not_open_states}
        price(i) == tickers[orders[i].symbol]
        reached == {i \in open : failed = 0 \/ i >= failed}
        res == [i \in 1..Len(orders) |->
                  IF i \in reached /\ i # failed
                    THEN monitor_row(orders[i], price(i), tp1_close_pct, today)
                    ELSE [row |-> orders[i], updates |-> {}]]
    IN /\ orders # <<>>
       /\ failed # 0 =>
             /\ failed \in open
             /\ monitor_row(orders[failed], price(failed), tp1_close_pct,
                            today).row # orders[failed]
       /\ last_fills' = {[id |-> i, confirmed |-> FALSE] :
                           i \in (MonitorFills(tickers) \cap reached) \ {failed}}
       /\ last_prices' = [i \in 1..Len(orders) |->
                            IF i \in open THEN price(i) ELSE NoPrice]
       /\ orders' = [i \in 1..Len(orders) |-> res[i].row]
       /\ last_updates' = UNION {res[i].updates : i \in 1..Len(orders)}
       /\ last_exec' = NoExec
       /\ last_monitored' = reached
       /\ monitor_failed' = failed
       /\ UNCHANGED <<rm, today, cb_events, trading_mode, tp1_close_pct,
                      snapshot_peak, cycle_pc, cycle_idx, portfolio_cache,
                      traded_symbols, fsmVars, rkVars, candleVars, mainVars,
                      setupVars, registered, result_errors, cycle_result,
                      last_fault, schedVars, serviceVars>>

NextMonitorFaults ==
    \/ CycleStart
    \/ \E detection \in Detections, ticker \in TickerPrices \cup {NoPrice} :
            CycleItem(detection, ticker, TRUE)
    \/ CycleEnd
    \/ \E tickers \in [CycleSymbols -> TickerPrices \cup {NoPrice}],
          failed \in 0..MaxOrders :
            MonitorPassFaulty(tickers, failed)

----------------------------------------------------------------------------
\* SpecScheduler: main() from scheduler.start() to db.disconnect(), the three
\* interval jobs of the AsyncIOScheduler (max_instances = 1 each) and the
\* shutdown signal.  Jobs and the calls main() awaits are coroutines on one
\* event loop; a call in flight is one that has started and not returned.
\* Durations are free: a trigger may come while any call is in flight.

Jobs == {"analysis_cycle", "position_monitor", "outcome_tracker"}

\* what the steps of main() and of the scheduler leave alone: the jobs
\* themselves are followed in the other specifications
jobVars ==
    <<fsmVars, riskVars, rkVars, trading_mode, tp1_close_pct, orders,
      snapshot_peak, cycle_pc, cycle_idx, portfolio_cache, traded_symbols,
      last_updates, last_exec, last_fills, last_prices, candleVars, mainVars,
      setupVars, registered, result_errors, cycle_result, last_fault,
      last_monitored, monitor_failed, serviceVars>>

\* the statements main() goes through, in order, from scheduler.start()
MainSteps ==
    <<"scheduler.start", "seed_candle_cache", "analysis_cycle",
      "track_signal_outcomes", "stop_event.wait", "scheduler.shutdown",
      "close_all", "done">>

\* the job whose function main() is awaiting directly, "None" if none
direct_call(pc) ==
    IF pc = "analysis_cycle" THEN "analysis_cycle"
    ELSE IF pc = "track_signal_outcomes" THEN "outcome_tracker"
    ELSE "None"

\* the scheduler has been started and not shut down
scheduler_running(pc) ==
    pc \in {"seed_candle_cache", "analysis_cycle", "track_signal_outcomes",
            "stop_event.wait"}

\* the executions of the function of job in flight: the instance the
\* scheduler started and the call main() awaits
in_flight(job) ==
    (IF job \in scheduled_running THEN 1 ELSE 0)
      + (IF direct_call(main_pc) = job THEN 1 ELSE 0)

\* the interval trigger of a job fires: the scheduler starts an instance
\* unless max_instances (1) instances it started are running, in which case
\* the run is skipped
Trigger(job) ==
    /\ scheduler_running(main_pc)
    /\ IF job \in scheduled_running
         THEN /\ last_trigger' = [job |-> job, outcome |-> "dropped"]
              /\ UNCHANGED scheduled_running
       ELSE /\ last_trigger' = [job |-> job, outcome |-> "started"]
            /\ scheduled_running' = scheduled_running \cup {job}
    /\ UNCHANGED <<main_pc, stop_event, cancelled, jobVars>>

\* an instance started by the scheduler returns
JobEnd(job) ==
    /\ job \in scheduled_running
    /\ scheduled_running' = scheduled_running \ {job}
    /\ UNCHANGED <<main_pc, stop_event, cancelled, last_trigger, jobVars>>

\* main() goes on to its next statement: scheduler.start(), the seeding, the
\* initial analysis cycle and the initial outcome tracker return
MainAdvance ==
    /\ \E k \in 1..4 : main_pc = MainSteps[k] /\ main_pc' = MainSteps[k + 1]
    /\ UNCHANGED <<scheduled_running, stop_event, cancelled, last_trigger,
                   jobVars>>

\* SIGINT or SIGTERM with the handlers of main() installed
ShutdownSignal ==
    /\ main_pc = "stop_event.wait"
    /\ ~stop_event
    /\ stop_event' = TRUE
    /\ UNCHANGED <<main_pc, scheduled_running, cancelled, last_trigger, jobVars>>

\* stop_event.wait() returns and main() calls scheduler.shutdown(wait=False):
\* no further trigger; the call returns at once, and the executor cancels
\* the instances in cancels (all of them or none, as the executor of the
\* installed APScheduler does) and leaves the others running
SchedulerShutdown(cancels) ==
    /\ main_pc = "stop_event.wait"
    /\ stop_event
    /\ cancels \in {{}, scheduled_running}
    /\ main_pc' = "scheduler.shutdown"
    /\ scheduled_running' = scheduled_running \ cancels
    /\ cancelled' = cancels
    /\ UNCHANGED <<stop_event, last_trigger, jobVars>>

\* health.stop() and router.close_all(): the broker sessions are closed
CloseAll ==
    /\ main_pc = "scheduler.shutdown"
    /\ main_pc' = "close_all"
    /\ UNCHANGED <<scheduled_running, stop_event, cancelled, last_trigger,
                   jobVars>>

\* the alerts, telegram.close(), sms.close() and db.disconnect()
Disconnect ==
    /\ main_pc = "close_all"
    /\ main_pc' = "done"
    /\ UNCHANGED <<scheduled_running, stop_event, cancelled, last_trigger,
                   jobVars>>

NextScheduler ==
    \/ \E job \in Jobs : Trigger(job)
    \/ \E job \in Jobs : JobEnd(job)
    \/ MainAdvance
    \/ ShutdownSignal
    \/ \E cancels \in SUBSET Jobs : SchedulerShutdown(cancels)
    \/ CloseAll
    \/ Disconnect

\* the objects a specification does not drive stay as constructed
IdleFSM == InitFSM({"pending"})

IdleRisk == InitRisk({[symbol |-> "EUR_USD", direction |-> "long"]}, {<<>>})

IdleEngine == InitEngine({"paper"}, {0})

InitSpecFSM ==
    /\ InitFSM(OrderState)
    /\ IdleRisk
    /\ IdleEngine

InitSpecRisk ==
    /\ InitRisk(RiskSignals, RiskPortfolios)
    /\ IdleFSM
    /\ IdleEngine

InitSpec ==
    /\ InitEngine(TradingMode, {0, 100})
    /\ IdleFSM
    /\ IdleRisk

SpecFSM == InitSpecFSM /\ [][NextFSM]_vars

SpecRisk == InitSpecRisk /\ [][NextRisk]_vars

Spec == InitSpec /\ [][Next]_vars

InitSpecMonitor ==
    /\ InitMonitor
    /\ IdleFSM
    /\ IdleRisk

SpecMonitor == InitSpecMonitor /\ [][NextMonitor]_vars

InitSpecCandles ==
    /\ InitEngine({"dev"}, {0})
    /\ IdleFSM
    /\ IdleRisk

SpecCandles == InitSpecCandles /\ [][NextCandles]_vars

InitSpecCycle ==
    /\ InitEngine(TradingMode, {0})
    /\ IdleFSM
    /\ IdleRisk

SpecCycle == InitSpecCycle /\ [][NextCycle]_vars

InitSpecSetups ==
    /\ InitEngineCore({"paper"}, {0})
    /\ InitSetups(BOOLEAN)
    /\ InitProc({BrokerIds})
    /\ IdleFSM
    /\ IdleRisk

SpecSetups == InitSpecSetups /\ [][NextSetups]_vars

InitSpecFaults ==
    /\ InitEngineCore({"paper"}, {0})
    /\ InitSetups({FALSE})
    /\ InitProc(RouterSets)
    /\ IdleFSM
    /\ IdleRisk

SpecFaults == InitSpecFaults /\ [][NextFaults]_vars

InitSpecMonitorFaults ==
    /\ IdleEngine
    /\ IdleFSM
    /\ IdleRisk

SpecMonitorFaults == InitSpecMonitorFaults /\ [][NextMonitorFaults]_vars

InitSpecScheduler ==
    /\ IdleEngine
    /\ IdleFSM
    /\ IdleRisk

SpecScheduler == InitSpecScheduler /\ [][NextScheduler]_vars

----------------------------------------------------------------------------
\* Claims about the execution engine (checked under Spec).

\* the states C1 calls non-terminal
OpenStates == {"pending", "submitted", "partially_filled", "filled"}

\* rows of the orders table of broker b on symbol s in an open state
OpenOrders(b, s) ==
    {i \in 1..Len(orders) :
        /\ orders[i].broker = b /\ orders[i].symbol = s
        /\ orders[i].state \in OpenStates}

\* C1: after any sequence of analysis cycles (execute_signal, reversal closes
\* included) and position-monitor passes, every (broker, symbol) has at most
\* one order in a non-terminal state (pending, submitted, partially_filled or
\* filled); a long and a short order on one symbol are never open together.
C1_OneOpenOrderPerSymbol ==
    \A b \in BrokerIds, s \in CycleSymbols : Cardinality(OpenOrders(b, s)) <= 1

\* C2: every change of an order's persisted state made by execute_signal, by
\* the position monitor or by a reversal close is an edge of TRANSITIONS, and
\* an order in closed, cancelled or rejected never changes state again.
C2_UpdatesFollowTransitions ==
    \A u \in last_updates : u.from # u.to => u.to \in TRANSITIONS[u.from]

\* C11: when execute_signal acts on a REVERSAL:<old_id> approval and inserts
\* the new opposite-direction order as submitted, the old order is closed, with
\* the PnL net of fees at the ticker price, and no other order of the symbol
\* is open: one closed, one newly submitted.
C11_ReversalClosesOldFirst ==
    (/\ last_exec.reversal
     /\ last_exec.new_id # 0
     /\ orders[last_exec.new_id].state = "submitted")
    => /\ last_exec.old_id \in 1..Len(orders)
       /\ LET old == orders[last_exec.old_id]
          IN /\ old.state = "closed"
             /\ old.filled_price = last_exec.ticker
             /\ old.pnl = calc_pnl(old.direction, old.entry_price,
                                   last_exec.ticker, remaining_qty(old),
                                   fee_rate(old.symbol)).pnl
       /\ \A i \in 1..Len(orders) :
             (orders[i].symbol = last_exec.symbol /\ i # last_exec.new_id)
             => orders[i].state \notin OpenStates

\* C12: outside paper mode the position monitor moves a submitted order to
\* filled only when the venue's order status confirms the fill; only in paper
\* mode is a submitted order filled unconditionally.
C12_LiveFillNeedsConfirmation ==
    trading_mode # "paper" => \A f \in last_fills : f.confirmed

\* C13: every order in a non-terminal state has 0 < remaining_quantity <=
\* quantity, for every tp1_close_pct in [0, 1]; a row no partial close has
\* written yet (tp_stage 0, remaining_quantity NULL) has all of its quantity
\* remaining.
C13_RemainingQuantityInRange ==
    \A i \in 1..Len(orders) :
        (orders[i].state \in OpenStates /\ orders[i].tp_stage = 1)
        => /\ 0 < orders[i].remaining_quantity
           /\ orders[i].remaining_quantity <= orders[i].quantity

----------------------------------------------------------------------------
\* C3: transition(target) called in state s sets the state to target iff
\* target is in TRANSITIONS[s]; otherwise it raises InvalidTransitionError
\* and leaves the state unchanged.  is_terminal holds exactly in closed,
\* cancelled and rejected, and from those states no transition call succeeds.
C3_TransitionIffInTable ==
    /\ fsm_called =>
         /\ (fsm_target \in TRANSITIONS[fsm_prev])
               <=> (~fsm_raised /\ fsm_state = fsm_target)
         /\ (fsm_target \notin TRANSITIONS[fsm_prev])
               => (fsm_raised /\ fsm_state = fsm_prev)
         /\ (fsm_prev \in {"closed", "cancelled", "rejected"}) => fsm_raised
    /\ is_terminal(fsm_state) <=> fsm_state \in {"closed", "cancelled", "rejected"}
    /\ is_active(fsm_state) <=> fsm_state \notin {"closed", "cancelled", "rejected"}

\* a refused call from a terminal state and the state it left untouched
C3_Witness ==
    /\ fsm_called /\ fsm_raised
    /\ fsm_prev = "closed" /\ fsm_target = "pending" /\ fsm_state = "closed"
    /\ is_terminal(fsm_state)

\* C4 (as stated): over the lifetime of one order the transition
\* error -> pending is taken at most once.
C4_RetryAtMostOnce == fsm_retries <= 1

\* C4 (amended): error -> pending is accepted whenever the state is error,
\* however many times it was taken before.
C4_RetryAlwaysAccepted ==
    (fsm_called /\ fsm_prev = "error" /\ fsm_target = "pending")
        => (~fsm_raised /\ fsm_state = "pending" /\ fsm_retries >= 1)

\* the second retry of pending -> error -> pending -> error -> pending
C4_Witness ==
    /\ fsm_called /\ fsm_prev = "error" /\ fsm_target = "pending"
    /\ fsm_state = "pending" /\ fsm_retries = 2

----------------------------------------------------------------------------
\* Claims about the RiskManager (checked under SpecRisk).  rk_last describes
\* the last call; Midnight clears it, so today is the day of that call.

\* the daily-loss condition as the specification words it
DailyLossBreach ==
    /\ rk_last.equity > 0
    /\ rk_last.daily_pnl < 0
    /\ Abs(rk_last.daily_pnl) * 100 >= max_daily_loss_pct * rk_last.equity

\* active orders of the portfolio on the signal's symbol
OnSignalSymbol ==
    {i \in 1..Len(rk_positions) :
        /\ rk_positions[i].state \in {"pending", "submitted", "partially_filled", "filled"}
        /\ rk_positions[i].symbol = rk_signal.symbol}

\* the portfolio of the last check_entry call breaches no limit
BreachesNoLimit ==
    /\ ~DailyLossBreach
    /\ OnSignalSymbol = {}
    /\ open_count(rk_positions)
         < get_max_open_positions(route_symbol(rk_signal.symbol))
    /\ same_class_same_dir(rk_signal, rk_positions)
         < ASSET_CLASS_CORRELATION_LIMITS(get_asset_class(rk_signal.symbol))

\* C5: while the daily breaker (tripped earlier on the same UTC day) or the
\* drawdown kill switch is active, check_entry returns approved = false for
\* every signal and every portfolio, reversal signals included.
C5_TrippedRejectsAll ==
    ( /\ rk_last.op = "check_entry"
      /\ \/ rk_last.pre.cb_active /\ rk_last.pre.cb_tripped_date = {today}
         \/ rk_last.pre.dd_active )
    => ~rk_last.approved

\* both breakers active at the call, and the rejected signal is a reversal
C5_Witness ==
    /\ rk_last.op = "check_entry"
    /\ rk_last.pre.cb_active /\ rk_last.pre.cb_tripped_date = {today}
    /\ rk_last.pre.dd_active
    /\ ~rk_last.approved
    /\ rk_signal.direction \in SignalDirection
    /\ \E i \in OnSignalSymbol : rk_positions[i].direction # rk_signal.direction

\* C6 (as stated): a check_entry call whose portfolio breaches the daily loss
\* limit rejects the signal and leaves the daily breaker active.
C6_BreachLeavesDailyBreakerActive ==
    (rk_last.op = "check_entry" /\ DailyLossBreach)
    => (~rk_last.approved /\ rm.cb_active)

\* C6 (amended): a breaching check_entry call made while the drawdown kill
\* switch is off rejects the signal and leaves the daily breaker active with
\* today's date; every later check_entry call of that UTC day made before a
\* manual reset_circuit_breaker is rejected, whatever its portfolio.
C6_BreachTripsDailyBreaker ==
    rk_last.op = "check_entry" =>
      /\ (DailyLossBreach /\ ~rk_last.pre.dd_active)
           => (~rk_last.approved /\ rm.cb_active /\ rm.cb_tripped_date = {today})
      /\ (rk_last.pre_tripped_on = {today}) => ~rk_last.approved

\* a later call of the same day with a portfolio that breaches nothing,
\* rejected by the daily breaker alone
C6_Witness ==
    /\ rk_last.op = "check_entry"
    /\ rk_last.pre_tripped_on = {today}
    /\ ~rk_last.pre.dd_active
    /\ BreachesNoLimit
    /\ ~rk_last.approved
    /\ rk_last.reason = "Circuit breaker active"

\* C7 (as stated): the first check_entry call on a later UTC day than the trip
\* is approved when the portfolio passed to it breaches no limit.
C7_NextDayCallApproved ==
    ( /\ rk_last.op = "check_entry"
      /\ rk_last.pre.cb_active /\ rk_last.pre.cb_tripped_date # {today}
      /\ BreachesNoLimit )
    => rk_last.approved

C7_NextDayReset ==
    ( /\ rk_last.op = "check_entry"
      /\ rk_last.pre.cb_active /\ rk_last.pre.cb_tripped_date # {today} )
    => /\ rm.cb_tripped_date # rk_last.pre.cb_tripped_date
       /\ rm.cb_active => DailyLossBreach
       /\ (BreachesNoLimit /\ ~rk_last.pre.dd_active)
            => (rk_last.approved /\ ~rm.cb_active)

C7_SameDayNoAutoReset ==
    ( /\ rm.cb_active /\ rm.cb_tripped_date = {today}
      /\ today' = today
      /\ ~rm'.cb_active )
    => rk_last'.op = "reset_circuit_breaker"

\* C7 (amended): a daily breaker tripped on UTC day D is reset by the first
\* check_entry call made on a later UTC day, and that call is approved when the
\* portfolio passed to it breaches no limit and the drawdown kill switch is
\* not active; on day D itself the daily breaker is never reset without an
\* explicit reset_circuit_breaker call.
C7_DailyBreakerResetsNextDay ==
    []C7_NextDayReset /\ [][C7_SameDayNoAutoReset]_vars

\* the approved first call of the next day
C7_Witness ==
    /\ rk_last.op = "check_entry"
    /\ rk_last.pre.cb_active /\ rk_last.pre.cb_tripped_date = {today - 1}
    /\ rk_last.approved
    /\ ~rm.cb_active

\* C8: once tripped, the drawdown kill switch stays active across UTC day
\* rollovers, check_entry calls, get_portfolio_state calls and
\* reset_circuit_breaker; only reset_drawdown_breaker clears it.
C8_KillSwitchManualResetOnly ==
    [][(rm.dd_active /\ ~rm'.dd_active)
          => rk_last'.op = "reset_drawdown_breaker"]_vars

\* the kill switch still active after a get_portfolio_state call that saw the
\* equity back at or above the peak, on a later day than day 0
C8_Witness ==
    /\ rk_last.op = "get_portfolio_state"
    /\ rk_last.pre.dd_active
    /\ rm.dd_active
    /\ rk_last.equity >= Max2(rk_last.peak, oanda_starting_equity)
    /\ today > 0

\* C9: whenever the daily-loss circuit breaker trips, a circuit_breaker_events
\* row is inserted.
C9_DailyTripInsertsEventRow ==
    ( /\ rk_last.op = "check_entry"
      /\ rm.cb_active
      /\ ~(rk_last.pre.cb_active /\ rk_last.pre.cb_tripped_date = {today}) )
    => Len(cb_events) > rk_last.events_before

\* C10: with no breaker active and no daily-loss breach, check_entry on a
\* portfolio that holds an active order on the signal's symbol rejects the
\* signal when the directions are equal and approves it with reason
\* REVERSAL:<id of that order> when they are opposite, whatever the position
\* cap and the correlation limit say.  With several such orders the first in
\* list order decides.
C10_DuplicateSymbolDecision ==
    ( /\ rk_last.op = "check_entry"
      /\ ~rk_last.pre.cb_active /\ ~rk_last.pre.dd_active
      /\ ~DailyLossBreach
      /\ rk_signal.direction \in SignalDirection
      /\ OnSignalSymbol # {} )
    => LET p == rk_positions[Min(OnSignalSymbol)] IN
       IF p.direction = rk_signal.direction
         THEN ~rk_last.approved /\ rk_last.reason = "Already positioned"
         ELSE /\ rk_last.approved
              /\ rk_last.reason = "REVERSAL"
              /\ rk_last.arg = p.id

\* a reversal approved although the position cap and the correlation limit
\* are both reached
C10_Witness ==
    /\ rk_last.op = "check_entry"
    /\ rk_last.approved /\ rk_last.reason = "REVERSAL"
    /\ Cardinality(OnSignalSymbol) = 1
    /\ open_count(rk_positions)
         >= get_max_open_positions(route_symbol(rk_signal.symbol))
    /\ same_class_same_dir(rk_signal, rk_positions)
         >= ASSET_CLASS_CORRELATION_LIMITS(get_asset_class(rk_signal.symbol))

----------------------------------------------------------------------------
\* Claims about the position monitor (checked under SpecMonitor).

\* C14: across monitor passes an order's sl_trail_stage never decreases, and
\* once it is >= 1 the order's stop_loss never moves in the loss direction:
\* never down for a long, never up for a short.
C14_TrailMonotonic ==
    [][\A i \in 1..Len(orders) :
         /\ orders'[i].sl_trail_stage >= orders[i].sl_trail_stage
         /\ orders[i].sl_trail_stage >= 1
            => IF orders[i].direction = "long"
                 THEN orders'[i].stop_loss >= orders[i].stop_loss
                 ELSE orders'[i].stop_loss <= orders[i].stop_loss]_vars

\* an order that went through the TP1 partial close (stop at entry) and a
\* stage 1 trailing update, and is still open with its stop beyond TP1
C14_Witness ==
    \E i \in 1..Len(orders) :
        /\ orders[i].state = "filled"
        /\ orders[i].tp_stage = 1
        /\ orders[i].sl_trail_stage = 2
        /\ Abs(orders[i].stop_loss - orders[i].entry_price)
             > Abs(orders[i].take_profit_1 - orders[i].entry_price)

\* the monitor pass of this step looks at row i with a ticker price
Monitored(i) ==
    /\ i \in 1..Len(orders)
    /\ i \in DOMAIN last_prices'
    /\ last_prices'[i] # NoPrice

\* the price is at or beyond the level in the row's profit direction
AtOrBeyondTarget(row, level, price) ==
    IF row.direction = "long" THEN price >= level ELSE price <= level

\* the price is at or beyond the level in the row's loss direction
AtOrBeyondStop(row, level, price) ==
    IF row.direction = "long" THEN price <= level ELSE price >= level

\* C15: when a monitor pass sees, for a filled order at tp_stage 0, a price at
\* or beyond TP1 and not at or beyond the stop: with tp1_close_pct > 0 and a
\* take_profit_2 it closes tp1_close_pct x remaining (realising the PnL of
\* that part), stores the rest as remaining_quantity, moves the stop to entry,
\* sets tp_stage to 1 and leaves the order filled; otherwise it closes all
\* remaining and the order becomes closed.  Long and short alike.
C15_Tp1PartialOrFullClose ==
    [][\A i \in 1..Len(orders) :
         (/\ Monitored(i)
          /\ orders[i].state \in {"submitted", "filled"}
          /\ orders[i].tp_stage = 0
          /\ AtOrBeyondTarget(orders[i], orders[i].take_profit_1, last_prices'[i])
          /\ ~AtOrBeyondStop(orders[i], orders[i].stop_loss, last_prices'[i]))
         => LET row == orders[i]
                after == orders'[i]
                price == last_prices'[i]
            IN IF tp1_close_pct > 0 /\ row.take_profit_2 # NoPrice
                 THEN /\ after.state = "filled"
                      /\ after.tp_stage = 1
                      /\ after.stop_loss = row.entry_price
                      /\ 100 * after.remaining_quantity
                           = (100 - tp1_close_pct) * remaining_qty(row)
                      /\ 100 * after.partial_pnl
                           = gain(row, price) * tp1_close_pct * remaining_qty(row)
                 ELSE /\ after.state = "closed"
                      /\ after.filled_price = price
                      /\ after.pnl = gain(row, price) * remaining_qty(row)]_vars

\* a short order half closed at TP1: half of the quantity remains, the stop is
\* at entry and the order is still filled
C15_Witness ==
    \E i \in DOMAIN last_prices :
        /\ tp1_close_pct = 50
        /\ orders[i].direction = "short"
        /\ last_prices[i] # NoPrice
        /\ last_prices[i] <= orders[i].take_profit_1
        /\ orders[i].state = "filled"
        /\ orders[i].tp_stage = 1
        /\ orders[i].sl_trail_stage = 0
        /\ 2 * orders[i].remaining_quantity = orders[i].quantity
        /\ orders[i].stop_loss = orders[i].entry_price

\* C16: for a filled order at tp_stage 1, a monitor pass whose price is at or
\* beyond the stop in force after the pass's trailing update, or at or beyond
\* TP2, closes the whole remaining quantity at that price and the order becomes
\* closed; a price strictly between the stop and TP2 closes nothing; a stop
\* hit at tp_stage 0 closes the full remaining quantity.
C16_StageOneCloses ==
    [][\A i \in 1..Len(orders) :
         (Monitored(i) /\ orders[i].state \in {"submitted", "filled"})
         => LET row == orders[i]
                after == orders'[i]
                price == last_prices'[i]
                stopped == AtOrBeyondStop(row, after.stop_loss, price)
            IN /\ (row.tp_stage = 1 /\ row.state = "filled")
                  => IF stopped \/ AtOrBeyondTarget(row, row.take_profit_2, price)
                       THEN /\ after.state = "closed"
                            /\ after.filled_price = price
                            /\ after.pnl = gain(row, price) * row.remaining_quantity
                       ELSE /\ after.state = "filled"
                            /\ after.remaining_quantity = row.remaining_quantity
               /\ (row.tp_stage = 0 /\ stopped)
                  => /\ after.state = "closed"
                     /\ after.filled_price = price
                     /\ after.pnl = gain(row, price) * row.quantity]_vars

----------------------------------------------------------------------------
\* Further claims about the RiskManager (checked under SpecRisk).

\* active orders of the portfolio
ActiveOrders ==
    {i \in 1..Len(rk_positions) :
        rk_positions[i].state \in {"pending", "submitted", "partially_filled", "filled"}}

\* active orders with the signal's direction and the signal's asset class
SameDirectionAndClass ==
    {i \in ActiveOrders :
        /\ rk_positions[i].direction = rk_signal.direction
        /\ get_asset_class(rk_positions[i].symbol) = get_asset_class(rk_signal.symbol)}

\* the correlation limits by asset class
ClassLimit ==
    [forex |-> 4, index |-> 3, commodity |-> 3, bond |-> 1, crypto |-> 4]

\* C17: check_entry approves a signal on a symbol with no active order only if
\* the number of active orders is below get_max_open_positions(broker_id) and
\* the number of active orders with the signal's direction and asset class is
\* below the limit of that class; orders of another asset class or of the
\* other direction do not count: a rejection for correlation has that many
\* orders of the signal's own direction and class.
C17_ApprovedWithinCaps ==
    (rk_last.op = "check_entry" /\ OnSignalSymbol = {})
    => /\ \A ac \in DOMAIN ClassLimit :
             ASSET_CLASS_CORRELATION_LIMITS(ac) = ClassLimit[ac]
       /\ rk_last.approved
          => /\ Cardinality(ActiveOrders)
                  < get_max_open_positions(route_symbol(rk_signal.symbol))
             /\ Cardinality(SameDirectionAndClass)
                  < ClassLimit[get_asset_class(rk_signal.symbol)]
       /\ rk_last.reason = "Correlation limit"
          => Cardinality(SameDirectionAndClass)
               >= ClassLimit[get_asset_class(rk_signal.symbol)]
       /\ rk_last.reason = "Max open positions reached"
          => Cardinality(ActiveOrders)
               >= get_max_open_positions(route_symbol(rk_signal.symbol))

\* an approved bond signal while a forex order of the same direction is active
C17_Witness ==
    /\ rk_last.op = "check_entry"
    /\ rk_last.approved
    /\ OnSignalSymbol = {}
    /\ \E i \in ActiveOrders :
          /\ rk_positions[i].direction = rk_signal.direction
          /\ get_asset_class(rk_positions[i].symbol) # get_asset_class(rk_signal.symbol)

RECURSIVE NotionalSum(_)
\* sum over the active orders in S of quantity x entry price, in hundredths of
\* the quote currency (USD for every instrument of the model)
NotionalSum(S) ==
    IF S = {} THEN 0
    ELSE LET i == CHOOSE x \in S : TRUE
         IN rk_positions[i].quantity * rk_positions[i].entry_price
              + NotionalSum(S \ {i})

\* the aggregate notional converted to the account currency (1 USD = 1 / 0.65
\* AUD) exceeds 10 x total equity:  sum / 100 / 0.65 > 10 x equity
LeverageExceeded == NotionalSum(ActiveOrders) > 10 * 65 * rk_last.equity

\* C18: check_entry rejects a signal, with a reason that mentions leverage,
\* when the aggregate notional of the open positions exceeds 10 x total
\* equity, and approves it when the notional is within 10 x and no other
\* limit is reached.
C18_PortfolioLeverageCap ==
    rk_last.op = "check_entry"
    => /\ LeverageExceeded
          => ~rk_last.approved /\ rk_last.reason = "Portfolio leverage"
       /\ (/\ ~LeverageExceeded
           /\ ~rk_last.pre.dd_active
           /\ ~rk_last.pre.cb_active
           /\ BreachesNoLimit)
          => rk_last.approved

----------------------------------------------------------------------------
\* Claims about the candle dedup (checked under SpecCandles)

\* C19: across any sequence of analysis cycles, for each (symbol, timeframe)
\* at most one detected signal is persisted per latest-candle timestamp: the
\* signals table never holds two rows that were detected for the same pair on
\* the same latest candle.
C19_OneSignalPerCandle ==
    \A k \in PairIds : signal_rows[k] <= 1

\* C20: after a restart with no new candles, every pair's latest candle being
\* the one that was latest and already signaled before the restart, the
\* candle-cache seeding and the initial analysis cycle persist zero signals:
\* no step of the initial cycle adds a row to the signals table.
C20_RestartPersistsNothing ==
    [][(/\ boot.restarts > 0
        /\ boot.all_signaled
        /\ boot'.no_new_candle
        /\ boot.looks < Len(CycleItems))
       => signal_rows' = signal_rows]_vars

----------------------------------------------------------------------------
\* Claims about the analysis cycle and execute_signal (checked under SpecCycle)

\* C24: for a given symbol execute_signal is called at most once per analysis
\* cycle, whatever the number of timeframes and whether or not the first call
\* placed an order: no loop iteration calls it for a symbol it was called for
\* earlier in the same cycle.
C24_OneAttemptPerSymbol ==
    ~last_attempt.again

----------------------------------------------------------------------------
\* Claims about the multi-timeframe confirmation (checked under SpecSetups)

\* C22: at any time the ActiveSetups stored under one broker:symbol key have
\* pairwise distinct directions (at most one long and at most one short
\* setup per symbol).  The key is injective in the symbol, so the store is
\* indexed by symbol.
C22_DistinctDirections ==
    \A s \in CycleSymbols :
        \A i, j \in 1..Len(active_setups[s]) :
            i # j => active_setups[s][i].direction # active_setups[s][j].direction


\* the position of an event in the record of the last loop iteration, 0 when
\* the iteration did not come to it
EventIndex(e) ==
    LET hits == {i \in 1..Len(last_item.events) : last_item.events[i] = e}
    IN IF hits = {} THEN 0 ELSE Min(hits)

\* the ids of the setups in the store
StoredSetupIds ==
    UNION {{active_setups[s][i].id : i \in 1..Len(active_setups[s])} :
             s \in CycleSymbols}

\* C21: each ActiveSetup is consumed by at most one 1h confirmation: at most
\* one confirmed "4h+1h" signal and at most one order derive from it, once
\* consumed it is no longer in the store, and in the iteration that consumes
\* it the removal comes before the confirmed signal is persisted.
C21_SetupConsumedOnce ==
    /\ \A id \in 1..Len(setup_confirmations) :
          /\ setup_confirmations[id].signals <= 1
          /\ setup_confirmations[id].orders <= 1
          /\ setup_confirmations[id].signals = 1 => id \notin StoredSetupIds
    /\ last_item.consumed # 0 =>
          /\ EventIndex("remove_setup") > 0
          /\ EventIndex("remove_setup") < EventIndex("persist_confirmed")

\* a setup was consumed and gave an order, and a later validated 1h signal on
\* its symbol in its direction found no matching setup and was not executed
C21_Witness ==
    /\ use_multi_tf_confirmation
    /\ last_item.found /\ last_item.validated
    /\ CycleItems[last_item.pair].timeframe = "1h"
    /\ ~last_item.matched /\ ~last_item.executed
    /\ \E id \in 1..Len(setup_confirmations) :
          /\ setup_confirmations[id].signals = 1
          /\ setup_confirmations[id].orders = 1
          /\ setup_confirmations[id].symbol = CycleItems[last_item.pair].symbol
          /\ setup_confirmations[id].direction = last_item.direction


\* the step is one iteration of the loop body
ItemStep == cycle_pc = "running" /\ cycle_idx' = cycle_idx + 1

\* C23: with multi-timeframe confirmation on, an iteration with a validated
\* 4h signal creates an ActiveSetup and makes no execute_signal call, and an
\* iteration with a validated 1h signal calls execute_signal only when a
\* setup of the symbol with the direction of the signal is in the store when
\* the iteration starts; without one it is skipped and inserts no order.
C23_MultiTfRouting ==
    [][(ItemStep /\ use_multi_tf_confirmation /\ last_item'.validated) =>
         LET symbol == CycleItems[cycle_idx].symbol
             timeframe == CycleItems[cycle_idx].timeframe
             in_store == \E i \in 1..Len(active_setups[symbol]) :
                            active_setups[symbol][i].direction =
                               last_item'.direction
         IN /\ timeframe = "4h" =>
                 /\ last_item'.created = setup_count'
                 /\ setup_count' = setup_count + 1
                 /\ Len(active_setups'[symbol]) = Len(active_setups[symbol]) + 1
                 /\ active_setups'[symbol][Len(active_setups'[symbol])].id =
                       last_item'.created
                 /\ ~last_item'.executed
                 /\ orders' = orders
            /\ timeframe = "1h" =>
                 /\ last_item'.executed => in_store
                 /\ ~in_store => /\ ~last_item'.executed
                                 /\ orders' = orders
                                 /\ active_setups' = active_setups]_vars

\* a validated 1h signal that matched a setup reached execute_signal and
\* inserted an order, while another setup, created by a validated 4h signal
\* that was not executed, waits in the store
C23_Witness ==
    /\ use_multi_tf_confirmation
    /\ last_item.validated /\ last_item.executed
    /\ CycleItems[last_item.pair].timeframe = "1h"
    /\ last_item.consumed # 0
    /\ Len(orders) = 1
    /\ StoredSetupIds # {}


\* C25: in an iteration that detects a signal, validation comes first and the
\* persist attempt second; execute_signal and the creation of an ActiveSetup
\* come only after both and only for a signal that passed validate_signal
\* and has at least the confidence the broker asks for; a rejected signal is
\* handed to _persist_signal with validated = false, inserts no order,
\* creates no setup, and the cycle goes on with the next pair.
C25_ValidatePersistExecute ==
    [][(ItemStep /\ last_item'.found) =>
         LET symbol == CycleItems[cycle_idx].symbol
             timeframe == CycleItems[cycle_idx].timeframe
             events == last_item'.events
             accepted ==
                 /\ last_item'.rules_passed
                 /\ last_item'.confidence >=
                       get_min_confidence(route_symbol(symbol))
             acts == {i \in 1..Len(events) :
                        events[i] \in {"execute_signal", "setup_created"}}
         IN /\ Len(events) >= 2
            /\ events[1] = "validate_signal"
            /\ events[2] = "persist_signal"
            /\ \A i \in acts : i > 2
            /\ last_item'.executed <=> "execute_signal" \in
                                          {events[i] : i \in 1..Len(events)}
            /\ (acts # {} \/ orders' # orders
                   \/ active_setups' # active_setups) => accepted
            /\ ~accepted =>
                 /\ last_item'.rows \subseteq
                       {[timeframe |-> timeframe, validated |-> FALSE]}
                 /\ acts = {}
                 /\ orders' = orders
                 /\ active_setups' = active_setups
                 /\ setup_count' = setup_count
                 /\ cycle_pc' = "running"]_vars

\* a signal that passed validate_signal with a confidence below the threshold
\* of its broker was persisted with validated = false, after an earlier
\* signal was executed and inserted an order
C25_Witness ==
    /\ last_item.found
    /\ last_item.rules_passed
    /\ last_item.confidence < get_min_confidence(
                                 route_symbol(CycleItems[last_item.pair].symbol))
    /\ last_item.rows = {[timeframe |-> CycleItems[last_item.pair].timeframe,
                          validated |-> FALSE]}
    /\ ~last_item.executed
    /\ Len(orders) = 1
    /\ cycle_pc = "running"


----------------------------------------------------------------------------
\* Claims about exceptions in the jobs (checked under SpecFaults and
\* SpecMonitorFaults)

\* C27: no step of a running analysis cycle lets an exception leave the
\* cycle, and a loop iteration in which a call raises (broker routing,
\* fetch, indicators, detection, validation, execution) adds one entry to
\* result.errors and leaves the cycle running at the next pair; so the cycle
\* comes to its completion step.
C27_ErrorsRecordedCycleCompletes ==
    [][cycle_pc = "running" =>
         /\ cycle_result' # "raised"
         /\ last_fault' # "none" =>
               /\ result_errors' = result_errors + 1
               /\ cycle_pc' = "running"
               /\ cycle_idx' = cycle_idx + 1]_vars


\* C28: in a monitor pass, every open order with a fetched price, other than
\* the one whose statement raised, is come to and gets the updates the pass
\* makes at that price.
C28_PassReachesOtherOrders ==
    [][last_prices' # <<>> =>
         \A i \in 1..Len(orders) :
            (/\ orders[i].state \notin not_open_states
             /\ last_prices'[i] # NoPrice
             /\ i # monitor_failed') =>
               /\ i \in last_monitored'
               /\ orders'[i] = monitor_row(orders[i], last_prices'[i],
                                           tp1_close_pct, today).row]_vars


----------------------------------------------------------------------------
\* Claims about the scheduler and the shutdown (checked under SpecScheduler)

\* C29: at no time are two executions of the analysis cycle in flight, nor
\* two position-monitor passes, nor two outcome-tracker runs, the initial
\* cycle and the initial outcome-tracker run of main() included.
C29_OneExecutionInFlight == \A job \in Jobs : in_flight(job) <= 1

\* C30: when the broker sessions are closed and the database pool is
\* disconnected, every job that was in flight at the shutdown signal has
\* finished: none is still running and none was cancelled.
C30_ShutdownWaitsForJobs ==
    main_pc \in {"close_all", "done"} =>
        /\ scheduled_running = {}
        /\ cancelled = {}

(***************************************************************************)
(* SpecOutcome: the signal outcome tracker                                 *)
(* (bot/layer5_monitoring/outcome_tracker.py) following one signal.  Times *)
(* are minutes since start-up; the tracker runs on a full hour of the      *)
(* clock, the signal was created five minutes after hour 0.  A value that  *)
(* may be None is a set: {} for None, {v} for the value v.  Returns are in *)
(* hundredths of a percent.  The checkpoints other than 24h and the        *)
(* MFE/MAE columns are written by the same UPDATE and read by nothing      *)
(* that is modelled; they are left out of the row.                         *)
(***************************************************************************)

Hour == 60

CORRECT_THRESHOLD == 50

INCORRECT_THRESHOLD == 0 - 50

ResolveHours == 24

\* the signals the tracker is given: entry 200, the stop and the targets 4%
\* apart, take_profit_2 and take_profit_3 present or NULL
TrackedSignals ==
    {[id |-> 1, direction |-> "long", entry_price |-> 200, stop_loss |-> 192,
      take_profit_1 |-> 208, take_profit_2 |-> t.tp2, take_profit_3 |-> t.tp3,
      created_at |-> 5] :
        t \in {[tp2 |-> 216, tp3 |-> 224], [tp2 |-> NoPrice, tp3 |-> NoPrice]}}
    \cup
    {[id |-> 1, direction |-> "short", entry_price |-> 200, stop_loss |-> 208,
      take_profit_1 |-> 192, take_profit_2 |-> t.tp2, take_profit_3 |-> t.tp3,
      created_at |-> 5] :
        t \in {[tp2 |-> 184, tp3 |-> 176], [tp2 |-> NoPrice, tp3 |-> NoPrice]}}

\* high, low and close of the candles the market prints: quiet ones closing
\* on, at and beyond the verdict thresholds, and ones reaching the levels
TrackerCandleKinds ==
    {[high |-> 203, low |-> 197, close |-> c] : c \in {198, 199, 200, 201, 202}}
    \cup {[high |-> 209, low |-> 199, close |-> 205],
          [high |-> 225, low |-> 199, close |-> 220],
          [high |-> 201, low |-> 191, close |-> 195],
          [high |-> 201, low |-> 175, close |-> 180],
          [high |-> 209, low |-> 191, close |-> 200]}

\* the candle that was open when the signal was created
PreSignalKinds ==
    {[high |-> 203, low |-> 197, close |-> 200],
     [high |-> 225, low |-> 175, close |-> 200]}

\* hours between two runs of the tracker that the model follows
TrackerTickHours == {12, 13}

\* INSERT_OUTCOME: the row of a signal, verdict 'pending', the other columns
\* at their defaults
new_outcome(signal) ==
    [signal_id |-> signal.id, entry_price |-> signal.entry_price,
     direction |-> signal.direction,
     price_24h |-> {}, return_24h |-> {},
     tp1_hit |-> FALSE, tp1_hit_at |-> {},
     tp2_hit |-> FALSE, tp2_hit_at |-> {},
     tp3_hit |-> FALSE, tp3_hit_at |-> {},
     sl_hit |-> FALSE, sl_hit_at |-> {},
     verdict |-> "pending", fully_resolved |-> FALSE]

\* broker.fetch_ohlcv(symbol, "1h", limit): the latest limit candles
fetch_ohlcv(market, limit) ==
    SubSeq(market, IF Len(market) > limit THEN Len(market) - limit + 1 ELSE 1,
           Len(market))

\* _find_closest_candle: the first candle at the least distance of the target
find_closest_candle(candles, target_time) ==
    LET diff(i) == Abs(candles[i].timestamp - target_time)
        best == CHOOSE i \in 1..Len(candles) :
                    \A j \in 1..Len(candles) :
                        /\ diff(i) <= diff(j)
                        /\ j < i => diff(j) > diff(i)
    IN candles[best]

\* the return of a checkpoint price, positive when the signal was right
checkpoint_return(is_long, price, entry_price) ==
    IF is_long THEN ((price - entry_price) * 10000) \div entry_price
    ELSE ((entry_price - price) * 10000) \div entry_price

RECURSIVE hit_scan_Latest(_, _, _, _, _)
hit_scan_Latest(hit, hit_at, level, candles, upward) ==
    IF candles = <<>> THEN [hit |-> hit, at |-> hit_at]
    ELSE LET c == Head(candles)
             reached == IF upward THEN c.high >= level ELSE c.low <= level
         IN IF level # NoPrice /\ reached
            THEN hit_scan_Latest(TRUE, {c.timestamp}, level, Tail(candles), upward)
            ELSE hit_scan_Latest(hit, hit_at, level, Tail(candles), upward)

\* the TP / SL hit detection of one level over the relevant candles: a hit
\* that is set is left alone
RECURSIVE hit_scan(_, _, _, _, _)
hit_scan(hit, hit_at, level, candles, upward) ==
    IF candles = <<>> THEN [hit |-> hit, at |-> hit_at]
    ELSE LET c == Head(candles)
             reached == IF upward THEN c.high >= level ELSE c.low <= level
         IN IF level # NoPrice /\ ~hit /\ reached
            THEN hit_scan(TRUE, {c.timestamp}, level, Tail(candles), upward)
            ELSE hit_scan(hit, hit_at, level, Tail(candles), upward)

compute_verdict_AtThreshold(tp1_hit, sl_hit, return_24h, fully_resolved) ==
    IF tp1_hit /\ sl_hit THEN "partial"
    ELSE IF tp1_hit THEN "correct"
    ELSE IF sl_hit THEN "incorrect"
    ELSE IF fully_resolved /\ return_24h # {}
         THEN IF \E r \in return_24h : r >= CORRECT_THRESHOLD THEN "correct"
              ELSE IF \E r \in return_24h : r <= INCORRECT_THRESHOLD
                   THEN "incorrect"
                   ELSE "partial"
         ELSE "pending"

\* _compute_verdict
compute_verdict(tp1_hit, sl_hit, return_24h, fully_resolved) ==
    IF tp1_hit /\ sl_hit THEN "partial"
    ELSE IF tp1_hit THEN "correct"
    ELSE IF sl_hit THEN "incorrect"
    ELSE IF fully_resolved /\ return_24h # {}
         THEN IF \E r \in return_24h : r > CORRECT_THRESHOLD THEN "correct"
              ELSE IF \E r \in return_24h : r < INCORRECT_THRESHOLD
                   THEN "incorrect"
                   ELSE "partial"
         ELSE "pending"

\* _process_single_outcome for the row outcome joined with its signal:
\* whether UPDATE_OUTCOME is issued, and the row it writes
process_single_outcome(outcome, signal, candles, now) ==
    LET signal_time == signal.created_at
        is_long == outcome.direction = "long"
        elapsed == now - signal_time
        after_signal(c) == c.timestamp >= signal_time
        relevant == SelectSeq(candles, after_signal)
        price_24h ==
            IF outcome.price_24h # {} THEN outcome.price_24h
            ELSE IF elapsed < ResolveHours * Hour THEN {}
            ELSE {find_closest_candle(relevant,
                      signal_time + ResolveHours * Hour).close}
        return_24h ==
            IF price_24h # {} /\ outcome.entry_price > 0
            THEN {checkpoint_return(is_long, p, outcome.entry_price) :
                     p \in price_24h}
            ELSE outcome.return_24h
        tp1 == hit_scan(outcome.tp1_hit, outcome.tp1_hit_at,
                        signal.take_profit_1, relevant, is_long)
        tp2 == hit_scan(outcome.tp2_hit, outcome.tp2_hit_at,
                        signal.take_profit_2, relevant, is_long)
        tp3 == hit_scan(outcome.tp3_hit, outcome.tp3_hit_at,
                        signal.take_profit_3, relevant, is_long)
        sl == hit_scan(outcome.sl_hit, outcome.sl_hit_at,
                       signal.stop_loss, relevant, ~is_long)
        fully_resolved == elapsed >= ResolveHours * Hour
    IN
    IF relevant = <<>> THEN [updated |-> FALSE, row |-> outcome]
    ELSE [updated |-> TRUE,
          row |-> [outcome EXCEPT
                     !.price_24h = price_24h, !.return_24h = return_24h,
                     !.tp1_hit = tp1.hit, !.tp1_hit_at = tp1.at,
                     !.tp2_hit = tp2.hit, !.tp2_hit_at = tp2.at,
                     !.tp3_hit = tp3.hit, !.tp3_hit_at = tp3.at,
                     !.sl_hit = sl.hit, !.sl_hit_at = sl.at,
                     !.verdict = compute_verdict(tp1.hit, sl.hit, return_24h,
                                                 fully_resolved),
                     !.fully_resolved = fully_resolved]]

\* what the steps of the tracker leave alone
trackerFrame ==
    <<fsmVars, riskVars, rkVars, trading_mode, tp1_close_pct, orders,
      snapshot_peak, cycle_pc, cycle_idx, portfolio_cache, traded_symbols,
      last_updates, last_exec, last_fills, last_prices, candleVars, mainVars,
      use_multi_tf_confirmation, active_setups, setup_count, detections,
      setup_confirmations, last_item, registered, result_errors, cycle_result,
      last_fault, last_monitored, monitor_failed, schedVars, limiterVars,
      sessionVars, liveVars>>

\* track_signal_outcomes: _create_missing_outcomes, then
\* _update_unresolved_outcomes.  The INSERT, the fetch_ohlcv call and the
\* UPDATE each succeed or raise; every exception is caught and logged.
TrackerRun(insert_ok, fetch_ok, update_ok) ==
    LET now == clock * Hour
        missing == /\ signal_outcomes = <<>>
                   /\ tracked_signal.entry_price # NoPrice
                   /\ tracked_signal.direction # "None"
        created == IF missing /\ insert_ok
                   THEN <<new_outcome(tracked_signal)>> ELSE signal_outcomes
        unresolved(o) == ~o.fully_resolved
        rows == SelectSeq(created, unresolved)
        oldest_signal == tracked_signal.created_at
        hours_needed == ((now - oldest_signal) \div Hour) + 2
        candle_limit == Min({hours_needed, 500})
        candles == fetch_ohlcv(candles_1h, candle_limit)
        processed == process_single_outcome(rows[1], tracked_signal, candles,
                                            now)
        updated == /\ rows # <<>>
                   /\ fetch_ok
                   /\ candles # <<>>
                   /\ processed.updated
                   /\ update_ok
    IN
    /\ tracked_signal.created_at <= now
    /\ signal_outcomes' = IF updated THEN <<processed.row>> ELSE created
    /\ last_run' = [op |-> "run", created |-> missing /\ insert_ok,
                    fetched |-> rows # <<>> /\ fetch_ok,
                    updated |-> updated, elapsed |-> now - oldest_signal,
                    pre |-> signal_outcomes]
    /\ UNCHANGED <<tracked_signal, candles_1h, clock, trackerFrame>>

\* the clock moves on to a later hour, at which the market opens a candle or,
\* being closed, opens none
TrackerTick(hours, candle) ==
    /\ clock + hours <= MaxClock
    /\ clock' = clock + hours
    /\ candles_1h' = IF candle = {} THEN candles_1h
                     ELSE Append(candles_1h,
                              [timestamp |-> (clock + hours) * Hour,
                               high |-> (CHOOSE k \in candle : TRUE).high,
                               low |-> (CHOOSE k \in candle : TRUE).low,
                               close |-> (CHOOSE k \in candle : TRUE).close])
    /\ last_run' = [NoRun EXCEPT !.pre = signal_outcomes]
    /\ UNCHANGED <<tracked_signal, signal_outcomes, trackerFrame>>

NextOutcome ==
    \/ \E insert_ok \in BOOLEAN, fetch_ok \in BOOLEAN, update_ok \in BOOLEAN :
           TrackerRun(insert_ok, fetch_ok, update_ok)
    \/ \E hours \in TrackerTickHours,
          candle \in {{}} \cup {{k} : k \in TrackerCandleKinds} :
           TrackerTick(hours, candle)

\* a signal just persisted, no outcome row yet, the candle that was open at
\* the signal time in the market
InitTracker ==
    /\ tracked_signal \in TrackedSignals
    /\ signal_outcomes = <<>>
    /\ candles_1h \in {<<[timestamp |-> 0, high |-> k.high, low |-> k.low,
                          close |-> k.close]>> : k \in PreSignalKinds}
    /\ last_run = NoRun

InitSpecOutcome ==
    /\ InitEngineCore({"paper"}, {0})
    /\ InitSetups({FALSE})
    /\ InitProcCore({BrokerIds})
    /\ InitTracker
    /\ InitLimiter([c \in Categories |-> <<>>])
    /\ InitSession
    /\ InitLive
    /\ IdleFSM
    /\ IdleRisk

SpecOutcome == InitSpecOutcome /\ [][NextOutcome]_vars

\* the hit columns of a row of signal_outcomes, by level
HitLevels == {"tp1", "tp2", "tp3", "sl"}

HitOf(row, name) ==
    CASE name = "tp1" -> [hit |-> row.tp1_hit, at |-> row.tp1_hit_at]
      [] name = "tp2" -> [hit |-> row.tp2_hit, at |-> row.tp2_hit_at]
      [] name = "tp3" -> [hit |-> row.tp3_hit, at |-> row.tp3_hit_at]
      [] name = "sl" -> [hit |-> row.sl_hit, at |-> row.sl_hit_at]

\* the candles of market, opened at or after the signal time, that reached
\* the level name of the signal, by index
Reaching(market, signal, name) ==
    LET level == CASE name = "tp1" -> signal.take_profit_1
                   [] name = "tp2" -> signal.take_profit_2
                   [] name = "tp3" -> signal.take_profit_3
                   [] name = "sl" -> signal.stop_loss
        upward == (signal.direction = "long") = (name # "sl")
    IN {i \in 1..Len(market) :
           /\ market[i].timestamp >= signal.created_at
           /\ level # NoPrice
           /\ IF upward THEN market[i].high >= level
              ELSE market[i].low <= level}

\* C31: across successive runs of the outcome tracker a hit of tp1, tp2, tp3
\* or sl that is set stays set with its timestamp, and the timestamp of a hit
\* is that of the first candle after the signal time that reached the level
C31_HitsSticky ==
    [][\A name \in HitLevels :
        /\ \A i \in 1..Len(signal_outcomes) :
              HitOf(signal_outcomes[i], name).hit =>
                  /\ i <= Len(signal_outcomes')
                  /\ HitOf(signal_outcomes'[i], name)
                         = HitOf(signal_outcomes[i], name)
        /\ \A i \in 1..Len(signal_outcomes') :
              HitOf(signal_outcomes'[i], name).hit =>
                  \E k \in Reaching(candles_1h', tracked_signal', name) :
                      /\ HitOf(signal_outcomes'[i], name).at
                             = {candles_1h'[k].timestamp}
                      /\ \A j \in Reaching(candles_1h', tracked_signal', name) :
                             k <= j]_vars

\* a run updated a row whose tp1 hit was set by an earlier run, with a later
\* candle that reached take_profit_1 again in the market
C31_Witness ==
    /\ last_run.op = "run"
    /\ last_run.updated
    /\ last_run.pre # <<>>
    /\ last_run.pre[1].tp1_hit
    /\ signal_outcomes[1].tp1_hit
    /\ \E k \in Reaching(candles_1h, tracked_signal, "tp1") :
           signal_outcomes[1].tp1_hit_at # {candles_1h[k].timestamp}

\* C32: the verdict an update writes is partial with tp1 and sl hit, correct
\* with tp1 alone, incorrect with sl alone; with neither and 24 hours elapsed
\* it is correct above +0.5% of return_24h, incorrect below -0.5%, partial in
\* between; pending otherwise.  An update writes fully_resolved exactly when
\* 24 hours have elapsed, and a fully resolved row is not updated again.
C32_VerdictAndResolution ==
    [][/\ (last_run'.op = "run" /\ last_run'.updated) =>
            LET r == signal_outcomes'[1]
                late == last_run'.elapsed >= 24 * 60
            IN /\ r.fully_resolved = late
               /\ r.verdict =
                    IF r.tp1_hit /\ r.sl_hit THEN "partial"
                    ELSE IF r.tp1_hit THEN "correct"
                    ELSE IF r.sl_hit THEN "incorrect"
                    ELSE IF ~late THEN "pending"
                    ELSE IF \E v \in r.return_24h : v > 50 THEN "correct"
                    ELSE IF \E v \in r.return_24h : v < 0 - 50 THEN "incorrect"
                    ELSE IF r.return_24h # {} THEN "partial"
                    ELSE "undefined"
       /\ \A i \in 1..Len(signal_outcomes) :
            signal_outcomes[i].fully_resolved =>
                /\ signal_outcomes' = signal_outcomes
                /\ ~last_run'.updated]_vars

\* an update after 24 hours wrote a verdict from return_24h alone, the
\* return being on a threshold
C32_Witness ==
    /\ last_run.op = "run"
    /\ last_run.updated
    /\ signal_outcomes[1].fully_resolved
    /\ ~signal_outcomes[1].tp1_hit
    /\ ~signal_outcomes[1].sl_hit
    /\ signal_outcomes[1].return_24h = {50}
    /\ signal_outcomes[1].verdict = "partial"

(***************************************************************************)
(* SpecLimiter: one IGRateLimiter object (bot/layer1_data/                 *)
(* ig_rate_limiter.py) and the coroutines that call acquire() on it.  The  *)
(* body of the loop of acquire() has no await before its return or its     *)
(* sleep, so one pass through it is one step.  time.monotonic() moves in   *)
(* steps of TickSeconds; a timestamp is held as its age, now - timestamp,  *)
(* and ages stop counting at _WINDOW_S, from where on the code treats them *)
(* alike.                                                                  *)
(***************************************************************************)

_WINDOW_S == 60

LimitData == 60

LimitTrading == 15

LimitHistorical == 30

_LIMITS ==
    [c \in Categories |->
        CASE c = "data" -> LimitData
          [] c = "trading" -> LimitTrading
          [] c = "historical" -> LimitHistorical]

TickSeconds == 20

\* the acquire() calls the model follows
MaxAcquires == 3

\* the windows a limiter can be found with: empty, one grant short of the
\* budget after a burst, or full with one grant older than the rest
WindowShapes == {"empty", "burst", "full"}

window_of(shape, limit) ==
    CASE shape = "empty" -> <<>>
      [] shape = "burst" -> [i \in 1..(limit - 1) |-> 0]
      [] shape = "full" ->
             [i \in 1..limit |-> IF i = 1 THEN 2 * TickSeconds ELSE 0]

\* purge timestamps older than the window: popleft() while the oldest one
\* is at or beyond now - _WINDOW_S
RECURSIVE purge(_)
purge(window) ==
    IF window # <<>> /\ Head(window) >= _WINDOW_S THEN purge(Tail(window))
    ELSE window

slot_free_Inclusive(window, limit) == Len(window) <= limit

\* len(window) < limit
slot_free(window, limit) == Len(window) < limit

\* asyncio.sleep(window[0] + _WINDOW_S - now + 0.05), in steps of the clock:
\* the first step at which more than _WINDOW_S - age seconds have passed
sleep_steps(window) == ((_WINDOW_S - Head(window)) \div TickSeconds) + 1

\* what the steps of the limiter leave alone
limiterFrame ==
    <<fsmVars, riskVars, rkVars, trading_mode, tp1_close_pct, orders,
      snapshot_peak, cycle_pc, cycle_idx, portfolio_cache, traded_symbols,
      last_updates, last_exec, last_fills, last_prices, candleVars, mainVars,
      setupVars, registered, result_errors, cycle_result, last_fault,
      last_monitored, monitor_failed, schedVars, trackVars, sessionVars,
      liveVars>>

\* one pass through the loop of acquire(category) by caller, the first one
\* of the call or one after a sleep
acquire_pass(caller, category, retry) ==
    LET limit == _LIMITS[category]
        window == purge(windows[category])
        free == slot_free(window, limit)
    IN
    /\ windows' = [windows EXCEPT ![category] =
                      IF free THEN Append(window, 0) ELSE window]
    /\ granted' = IF free THEN [granted EXCEPT ![category] = Append(@, 0)]
                  ELSE granted
    /\ acquiring' = [acquiring EXCEPT ![caller] =
                        IF free THEN NotAcquiring
                        ELSE [category |-> category,
                              sleep |-> sleep_steps(window)]]
    /\ last_acquire' = [caller |-> caller, category |-> category,
                        retry |-> retry, granted |-> free,
                        fresh |-> Len(granted[category])]

\* a coroutine calls acquire(category)
Acquire(caller, category) ==
    /\ acquiring[caller] = NotAcquiring
    /\ acquire_calls < MaxAcquires
    /\ acquire_calls' = acquire_calls + 1
    /\ acquire_pass(caller, category, FALSE)
    /\ UNCHANGED limiterFrame

\* asyncio.sleep() returns to a caller whose wait is over
Wake(caller) ==
    /\ acquiring[caller] # NotAcquiring
    /\ acquiring[caller].sleep = 0
    /\ acquire_pass(caller, acquiring[caller].category, TRUE)
    /\ UNCHANGED <<acquire_calls, limiterFrame>>

\* time.monotonic() moves on by TickSeconds
LimiterTick ==
    LET older(a) == IF a + TickSeconds >= _WINDOW_S THEN _WINDOW_S
                    ELSE a + TickSeconds
        recent(a) == a < _WINDOW_S
    IN
    /\ windows' = [c \in Categories |->
                      [i \in 1..Len(windows[c]) |-> older(windows[c][i])]]
    /\ granted' = [c \in Categories |->
                      SelectSeq([i \in 1..Len(granted[c]) |->
                                    older(granted[c][i])], recent)]
    /\ acquiring' = [c \in Callers |->
                        IF acquiring[c].sleep > 0
                        THEN [acquiring[c] EXCEPT !.sleep = @ - 1]
                        ELSE acquiring[c]]
    /\ last_acquire' = NoAcquire
    /\ UNCHANGED <<acquire_calls, limiterFrame>>

NextLimiter ==
    \/ \E caller \in Callers, category \in Categories :
           Acquire(caller, category)
    \/ \E caller \in Callers : Wake(caller)
    \/ LimiterTick

InitSpecLimiter ==
    /\ InitEngineCore({"paper"}, {0})
    /\ InitSetups({FALSE})
    /\ InitProcCore({BrokerIds})
    /\ IdleTracker
    /\ InitSession
    /\ InitLive
    /\ \E shape \in WindowShapes :
           InitLimiter([c \in Categories |-> window_of(shape, _LIMITS[c])])
    /\ IdleFSM
    /\ IdleRisk

\* the clock moves on, and a sleep that is over returns
SpecLimiter ==
    /\ InitSpecLimiter
    /\ [][NextLimiter]_vars
    /\ WF_vars(LimiterTick)
    /\ \A caller \in Callers : WF_vars(Wake(caller))

SessionSteps ==
    {"idle", "lock_wait", "login_locked", "response_wait", "login_401",
     "response_wait_2"}

\* _token_expired()
token_expired == token \in {"none", "stale"}

\* the jobs with a POST /session in flight
logins_in_flight ==
    {j \in Jobs : session_pc[j] \in {"login_locked", "login_401"}}

\* what the steps of the session leave alone
sessionFrame ==
    <<fsmVars, riskVars, rkVars, trading_mode, tp1_close_pct, orders,
      snapshot_peak, cycle_pc, cycle_idx, portfolio_cache, traded_symbols,
      last_updates, last_exec, last_fills, last_prices, candleVars, mainVars,
      setupVars, registered, result_errors, cycle_result, last_fault,
      last_monitored, monitor_failed, schedVars, trackVars, limiterVars,
      liveVars>>

\* request(): _ensure_authenticated up to its first await, then, with valid
\* tokens, session.request
SessionRequest(job) ==
    /\ session_pc[job] = "idle"
    /\ IF ~token_expired
       THEN /\ session_pc' = [session_pc EXCEPT ![job] = "response_wait"]
            /\ UNCHANGED session_lock
       ELSE IF session_lock = "None"
       THEN /\ session_lock' = job
            /\ session_pc' = [session_pc EXCEPT ![job] = "login_locked"]
       ELSE /\ session_pc' = [session_pc EXCEPT ![job] = "lock_wait"]
            /\ UNCHANGED session_lock
    /\ UNCHANGED <<token, sessionFrame>>

\* _ensure_authenticated: the lock is handed to a waiting call, which checks
\* _token_expired() again
SessionLockAcquired(job) ==
    /\ session_pc[job] = "lock_wait"
    /\ session_lock = "None"
    /\ IF token_expired
       THEN /\ session_lock' = job
            /\ session_pc' = [session_pc EXCEPT ![job] = "login_locked"]
       ELSE /\ session_pc' = [session_pc EXCEPT ![job] = "response_wait"]
            /\ UNCHANGED session_lock
    /\ UNCHANGED <<token, sessionFrame>>

\* _login() under the lock returns: the tokens are stored and the request is
\* sent, or the login failed and RuntimeError leaves request()
SessionLoginLocked(job, ok) ==
    /\ session_pc[job] = "login_locked"
    /\ session_lock' = "None"
    /\ token' = IF ok THEN "fresh" ELSE token
    /\ session_pc' = [session_pc EXCEPT ![job] =
                         IF ok THEN "response_wait" ELSE "idle"]
    /\ UNCHANGED sessionFrame

\* the response to the request: 401 starts _login() again, without the lock;
\* any other status ends the call
SessionResponse(job, status) ==
    /\ session_pc[job] = "response_wait"
    /\ session_pc' = [session_pc EXCEPT ![job] =
                         IF status = 401 THEN "login_401" ELSE "idle"]
    /\ UNCHANGED <<token, session_lock, sessionFrame>>

\* _login() after the 401 returns: the request is sent once more, or the
\* login failed
SessionLogin401(job, ok) ==
    /\ session_pc[job] = "login_401"
    /\ token' = IF ok THEN "fresh" ELSE token
    /\ session_pc' = [session_pc EXCEPT ![job] =
                         IF ok THEN "response_wait_2" ELSE "idle"]
    /\ UNCHANGED <<session_lock, sessionFrame>>

\* the response to the repeated request ends the call
SessionResponse2(job) ==
    /\ session_pc[job] = "response_wait_2"
    /\ session_pc' = [session_pc EXCEPT ![job] = "idle"]
    /\ UNCHANGED <<token, session_lock, sessionFrame>>

\* the tokens come within _REFRESH_BEFORE_S of their lifetime
TokenAges ==
    /\ token = "fresh"
    /\ token' = "stale"
    /\ UNCHANGED <<session_lock, session_pc, sessionFrame>>

NextSession ==
    \/ \E job \in Jobs : SessionRequest(job)
    \/ \E job \in Jobs : SessionLockAcquired(job)
    \/ \E job \in Jobs, ok \in BOOLEAN : SessionLoginLocked(job, ok)
    \/ \E job \in Jobs, status \in {200, 401} : SessionResponse(job, status)
    \/ \E job \in Jobs, ok \in BOOLEAN : SessionLogin401(job, ok)
    \/ \E job \in Jobs : SessionResponse2(job)
    \/ TokenAges

InitSpecSession ==
    /\ InitEngineCore({"paper"}, {0})
    /\ InitSetups({FALSE})
    /\ InitProcCore({BrokerIds})
    /\ IdleTracker
    /\ InitLimiter([c \in Categories |-> <<>>])
    /\ InitSession
    /\ InitLive
    /\ IdleFSM
    /\ IdleRisk

SpecSession == InitSpecSession /\ [][NextSession]_vars

\* C34: at most one login request (POST /session) of the IG session is in
\* flight at any time, for the refresh before the token expires and for the
\* re-authentication after a 401 alike
C34_OneLoginInFlight == Cardinality(logins_in_flight) <= 1

\* the part of C34 that concerns _ensure_authenticated: a login under the
\* lock is made by the holder of the lock alone
LockedLoginsGuarded ==
    \A j \in Jobs : session_pc[j] = "login_locked" => session_lock = j

(***************************************************************************)
(* SpecLive: step 4 of ExecutionEngine.execute_signal in live mode         *)
(* (bot/layer3_execution/engine.py 105-153) over the three broker adapters *)
(* (MarketDataClient, OandaClient, IGClient) with their tenacity wrappers. *)
(* One step is one attempt of the wrapped adapter method, or the part of   *)
(* execute_signal between two adapter calls.  An attempt ends in a result  *)
(* or in the exception the adapter raises for the failure; the venue holds *)
(* an order from the moment it accepted the request that placed it.        *)
(***************************************************************************)

\* the brokers a symbol can be routed to
AdapterBrokers == {"binance", "oanda", "ig"}

\* how an attempt of an adapter method can end: a result; no connection; no
\* answer in time; HTTP 429; HTTP 5xx; HTTP 4xx for a request the venue
\* refuses as invalid; and, for IGClient, the order accepted by the POST with
\* every poll of _confirm_deal raising
AttemptOutcomes(broker) ==
    {"ok", "network", "timeout", "rate_limit", "server_5xx", "client_4xx"}
    \cup (IF broker = "ig" THEN {"confirm_failed"} ELSE {})

\* the exception an attempt ends with, by adapter
exception_of(broker, outcome) ==
    CASE broker = "binance" ->
           (CASE outcome = "network" -> "ccxt.NetworkError"
              [] outcome = "timeout" -> "ccxt.RequestTimeout"
              [] outcome = "rate_limit" -> "ccxt.RateLimitExceeded"
              [] outcome = "server_5xx" -> "ccxt.ExchangeNotAvailable"
              [] outcome = "client_4xx" -> "ccxt.InvalidOrder")
      [] broker = "oanda" ->
           (CASE outcome = "network" -> "ConnectionError"
              [] outcome = "timeout" -> "TimeoutError"
              [] outcome \in {"rate_limit", "server_5xx", "client_4xx"} ->
                     "V20Error")
      [] broker = "ig" ->
           (CASE outcome = "network" -> "aiohttp.ClientError"
              [] outcome = "timeout" -> "asyncio.TimeoutError"
              [] outcome \in {"rate_limit", "server_5xx", "client_4xx",
                              "confirm_failed"} -> "RuntimeError")

\* the classes an exception is an instance of
exception_classes(exception) ==
    IF exception \in {"ccxt.RequestTimeout", "ccxt.ExchangeNotAvailable"}
    THEN {exception, "ccxt.NetworkError"}
    ELSE IF exception = "ccxt.RateLimitExceeded"
    THEN {exception, "ccxt.DDoSProtection", "ccxt.NetworkError"}
    ELSE IF exception = "ccxt.InvalidOrder"
    THEN {exception, "ccxt.ExchangeError"}
    ELSE {exception}

\* retry_if_exception_type(...) of the adapter's wrapper
retry_types(broker) ==
    CASE broker = "binance" ->
           {"ccxt.NetworkError", "ccxt.ExchangeNotAvailable",
            "ccxt.RequestTimeout"}
      [] broker = "oanda" -> {"V20Error", "ConnectionError", "TimeoutError"}
      [] broker = "ig" ->
           {"aiohttp.ClientError", "asyncio.TimeoutError", "RuntimeError"}

\* stop_after_attempt(3)
stop_after_attempt == 3

\* the wrapped method is entered
call_started(broker, method) ==
    [broker |-> broker, method |-> method, attempts |-> <<>>,
     state |-> "running"]

\* what the steps of execute_signal's submission leave alone
liveFrame ==
    <<fsmVars, riskVars, rkVars, trading_mode, tp1_close_pct, orders,
      snapshot_peak, cycle_pc, cycle_idx, portfolio_cache, traded_symbols,
      last_updates, last_exec, last_fills, last_prices, candleVars, mainVars,
      setupVars, registered, result_errors, cycle_result, last_fault,
      last_monitored, monitor_failed, schedVars, trackVars, limiterVars,
      sessionVars>>

\* execute_signal comes to step 4 for a symbol of broker and calls
\* broker.create_limit_order
LiveSubmit(broker) ==
    /\ trading_mode = "live"
    /\ live_exec.pc = "idle"
    /\ live_exec' = [pc |-> "entry", broker |-> broker, state |-> "pending"]
    /\ adapter_call' = call_started(broker, "create_limit_order")
    /\ UNCHANGED <<venue, liveFrame>>

\* one attempt of the wrapped method: the venue accepts the order when the
\* request that places it succeeds; the wrapper returns the result, runs the
\* method again, or lets the exception out
AdapterAttempt(outcome) ==
    LET broker == adapter_call.broker
        attempts == Append(adapter_call.attempts, outcome)
        accepted == outcome \in {"ok", "confirm_failed"}
        retry == /\ outcome # "ok"
                 /\ exception_classes(exception_of(broker, outcome))
                        \cap retry_types(broker) # {}
                 /\ Len(attempts) < stop_after_attempt
    IN
    /\ adapter_call.state = "running"
    /\ outcome \in AttemptOutcomes(broker)
    /\ adapter_call' = [adapter_call EXCEPT
                          !.attempts = attempts,
                          !.state = IF outcome = "ok" THEN "returned"
                                    ELSE IF retry THEN "running"
                                    ELSE "raised"]
    /\ venue' = IF ~accepted THEN venue
                ELSE IF adapter_call.method = "create_limit_order"
                THEN [venue EXCEPT !.entry = @ + 1]
                ELSE [venue EXCEPT !.stop = @ + 1]
    /\ UNCHANGED <<live_exec, liveFrame>>

\* create_limit_order returned: exchange_order_id is set and
\* broker.create_stop_order is called
LiveEntryPlaced ==
    /\ live_exec.pc = "entry"
    /\ adapter_call.state = "returned"
    /\ live_exec' = [live_exec EXCEPT !.pc = "stop"]
    /\ adapter_call' = call_started(live_exec.broker, "create_stop_order")
    /\ UNCHANGED <<venue, liveFrame>>

\* create_stop_order returned: the order goes to submitted
LiveSubmitted ==
    /\ live_exec.pc = "stop"
    /\ adapter_call.state = "returned"
    /\ live_exec' = [live_exec EXCEPT !.pc = "returned",
                                      !.state = "submitted"]
    /\ UNCHANGED <<adapter_call, venue, liveFrame>>

\* either call raised: the except branch puts the order in error, sends the
\* alert, persists the row and returns None
LiveSubmissionFailed ==
    /\ live_exec.pc \in {"entry", "stop"}
    /\ adapter_call.state = "raised"
    /\ live_exec' = [live_exec EXCEPT !.pc = "returned", !.state = "error"]
    /\ UNCHANGED <<adapter_call, venue, liveFrame>>

NextLive ==
    \/ \E broker \in AdapterBrokers : LiveSubmit(broker)
    \/ \E outcome \in AttemptOutcomes("ig") : AdapterAttempt(outcome)
    \/ LiveEntryPlaced
    \/ LiveSubmitted
    \/ LiveSubmissionFailed

InitSpecLive ==
    /\ InitEngineCore({"live"}, {0})
    /\ InitSetups({FALSE})
    /\ InitProcCore({BrokerIds})
    /\ IdleTracker
    /\ InitLimiter([c \in Categories |-> <<>>])
    /\ InitSession
    /\ InitLive
    /\ IdleFSM
    /\ IdleRisk

SpecLive == InitSpecLive /\ [][NextLive]_vars

\* C35: a broker adapter call is attempted at most three times, an attempt
\* is followed by another one only when it ended in a transient failure
\* (network, timeout, rate limit, 5xx; the confirmation polls of IG failing
\* counted among them), and a 4xx validation error ends the call at once
C35_RetryOnlyTransient ==
    /\ Len(adapter_call.attempts) <= 3
    /\ \A i \in 1..Len(adapter_call.attempts) :
          (i < Len(adapter_call.attempts) \/ adapter_call.state = "running") =>
              adapter_call.attempts[i] \in
                  {"network", "timeout", "rate_limit", "server_5xx",
                   "confirm_failed"}

\* the part of C35 that holds: no call is attempted more than three times
AtMostThreeAttempts == Len(adapter_call.attempts) <= 3


\* C38: in live mode, when execute_signal has returned after
\* create_limit_order succeeded, no entry order is left working at the venue
\* without its protective stop order: if create_stop_order failed, the entry
\* order was cancelled before the order was recorded in error state
C38_NoEntryWithoutStop ==
    (/\ live_exec.pc = "returned"
     /\ adapter_call.method = "create_stop_order"
     /\ venue.entry > venue.cancelled)
        => venue.stop > 0

\* C40: one execute_signal call in live mode places at most one entry order
\* at the venue, whatever the retry wrapper of create_limit_order does
C40_AtMostOneEntryOrder == venue.entry <= 1


----------------------------------------------------------------------------
(***************************************************************************)
(* SpecBrokers: the one RiskManager of the process (bot/main.py) serving   *)
(* two brokers, as analysis_cycle drives it: get_portfolio_state(bid) for  *)
(* every broker of the router, then check_entry for the signals of the     *)
(* symbols with the portfolio of the symbol's broker.  The OANDA account   *)
(* takes any of the portfolios below; the Binance account is one that      *)
(* breaches no limit: no loss today, equity at its peak, no open position. *)
(***************************************************************************)

\* the broker whose own portfolio breaches no limit
QuietBroker == "binance"

\* signals of the cycle: one symbol per broker
BrokerSignals ==
    [symbol : {"BTC/USDT", "EUR_USD"}, direction : SignalDirection]

\* cumulative realised PnL of a broker read by get_portfolio_state
BrokerCumulativePnls(broker_id) ==
    IF broker_id = QuietBroker THEN {0} ELSE {0 - 1500, 0}

\* today's realised PnL of a broker
BrokerDailyPnls(broker_id) ==
    IF broker_id = QuietBroker THEN {0} ELSE {0 - 500, 0}

\* the open orders of a broker: none, or one filled long
BrokerOpenPositions(broker_id) ==
    IF broker_id = QuietBroker
    THEN {<<>>}
    ELSE {<<>>, <<[id |-> 1, symbol |-> "USB10Y_USD", direction |-> "long",
                   state |-> "filled", quantity |-> 16,
                   entry_price |-> 10000]>>}

\* analysis_cycle: check_entry for a signal, with the cached portfolio of the
\* broker the signal's symbol is routed to
BrokerCheckEntry(signal, cumulative_pnl, daily_pnl, open_positions) ==
    LET broker_id == route_symbol(signal.symbol)
        portfolio == [total_equity |-> starting_equity(broker_id) + cumulative_pnl,
                      daily_pnl |-> daily_pnl,
                      open_positions |-> open_positions]
        res == check_entry(rm, today, signal, portfolio, broker_id)
    IN
    /\ cumulative_pnl \in BrokerCumulativePnls(broker_id)
    /\ daily_pnl \in BrokerDailyPnls(broker_id)
    /\ open_positions \in BrokerOpenPositions(broker_id)
    /\ rm' = res.rm
    /\ rk_signal' = signal
    /\ rk_positions' = open_positions
    /\ rk_last' = [NoCall EXCEPT !.op = "check_entry", !.pre = rm,
                     !.equity = portfolio.total_equity,
                     !.daily_pnl = daily_pnl,
                     !.approved = res.approved, !.reason = res.reason,
                     !.arg = res.arg, !.events_before = Len(cb_events),
                     !.pre_tripped_on = rk_tripped_on]
    /\ rk_tripped_on' = IF daily_loss_exceeded(portfolio) /\ ~rm.dd_active
                          THEN {today} ELSE rk_tripped_on
    /\ UNCHANGED <<today, cb_events, fsmVars, engVars>>

NextBrokers ==
    \/ \E broker_id \in BrokerIds :
          \E c \in BrokerCumulativePnls(broker_id), pk \in {0}, ok1 \in {TRUE} :
             \E ok2 \in InsertOutcomes(broker_id, c, pk, ok1) :
                RiskGetPortfolioState(broker_id, c, pk, ok1, ok2)
    \/ \E signal \in BrokerSignals :
          \E c \in {0 - 1500, 0}, p \in {0 - 500, 0},
             pos \in BrokerOpenPositions("oanda") :
                BrokerCheckEntry(signal, c, p, pos)
    \/ Midnight

InitSpecBrokers ==
    /\ InitRisk(BrokerSignals, {<<>>})
    /\ IdleFSM
    /\ IdleEngine

SpecBrokers == InitSpecBrokers /\ [][NextBrokers]_vars

\* C36: risk limits are applied per broker.  The verdict check_entry gives to
\* a signal routed to the broker whose own portfolio breaches no limit is the
\* verdict a RiskManager that has seen no breach gives to that signal and
\* portfolio, whatever the portfolio of the other broker has been
C36_VerdictPerBroker ==
    (/\ rk_last.op = "check_entry"
     /\ route_symbol(rk_signal.symbol) = QuietBroker)
        => LET own == check_entry(InitRiskManager, today, rk_signal,
                          [total_equity |-> rk_last.equity,
                           daily_pnl |-> rk_last.daily_pnl,
                           open_positions |-> rk_positions], QuietBroker)
           IN /\ rk_last.approved = own.approved
              /\ rk_last.reason = own.reason


\* C37: an order is closed at most once.  Once the state of a row is closed,
\* no step of the position monitor or of an analysis cycle running next to it
\* writes the close again: state, realised pnl, fees, exit price and closing
\* day of the row stay as the first close wrote them
C37_ClosedAtMostOnce ==
    [][\A i \in 1..Len(orders) :
          orders[i].state = "closed" =>
              /\ [from |-> "closed", to |-> "closed"] \notin last_updates'
              /\ orders'[i].state = "closed"
              /\ orders'[i].pnl = orders[i].pnl
              /\ orders'[i].fees = orders[i].fees
              /\ orders'[i].filled_price = orders[i].filled_price
              /\ orders'[i].closed_day = orders[i].closed_day]_vars


----------------------------------------------------------------------------
(***************************************************************************)
(* SpecReversal: analysis cycles in paper mode whose validated signals     *)
(* carry either the usual stop (8 from the entry) or a wide one (200 from  *)
(* the entry), for which _calculate_oanda_position_size on an equity of    *)
(* 10,000 comes to int(0.65) = 0 units.                                    *)
(***************************************************************************)

\* the levels of a signal with a wide stop: TP1 at twice and TP2 at four
\* times the stop distance
WideSignalLevels ==
    [d \in SignalDirection |->
        IF d = "long"
          THEN [entry_price |-> 1000, stop_loss |-> 800,
                take_profit_1 |-> 1400, take_profit_2 |-> 1800]
          ELSE [entry_price |-> 1000, stop_loss |-> 1200,
                take_profit_1 |-> 600, take_profit_2 |-> 200]]

\* the DivergenceSignal of a validated detection on symbol; wide tells which
\* levels it carries
reversal_signal_of(symbol, direction, wide) ==
    IF wide
      THEN [symbol |-> symbol, direction |-> direction,
            entry_price |-> WideSignalLevels[direction].entry_price,
            stop_loss |-> WideSignalLevels[direction].stop_loss,
            take_profit_1 |-> WideSignalLevels[direction].take_profit_1,
            take_profit_2 |-> WideSignalLevels[direction].take_profit_2]
      ELSE signal_of(symbol, direction)

\* one iteration of the loop of analysis_cycle with the signal's levels drawn
ReversalCycleItem(detection, wide, ticker) ==
    /\ CycleItemSignal(detection \in SignalDirection,
                       reversal_signal_of(CycleItems[cycle_idx].symbol,
                                          detection, wide),
                       ticker, TRUE)
    /\ detection = "none" => ~wide
    /\ UNCHANGED <<candleVars, mainVars, setupVars, procVars>>

NextReversal ==
    \/ CycleStart
    \/ \E detection \in Detections, wide \in BOOLEAN,
          ticker \in TickerPrices \cup {NoPrice} :
            ReversalCycleItem(detection, wide, ticker)
    \/ CycleEnd

InitSpecReversal ==
    /\ InitEngine({"paper"}, {0})
    /\ IdleFSM
    /\ IdleRisk

SpecReversal == InitSpecReversal /\ [][NextReversal]_vars

\* C39: in execute_signal the reversal close comes before the sizing.  When
\* check_entry answered REVERSAL:<id> and the call placed no new order (in
\* paper mode: calculate_position_size returned a quantity <= 0), the old
\* order is closed, it is no longer among the open positions of the
\* in-memory portfolio, and the symbol has no open order
C39_ReversalThenNoSize ==
    (last_exec.reversal /\ last_exec.new_id = 0)
        => /\ last_exec.old_id \in 1..Len(orders)
           /\ orders[last_exec.old_id].state = "closed"
           /\ LET held == portfolio_cache[route_symbol(last_exec.symbol)].open_positions
              IN \A k \in 1..Len(held) : held[k].id # last_exec.old_id
           /\ \A i \in 1..Len(orders) :
                 orders[i].symbol = last_exec.symbol
                     => orders[i].state \in not_open_states

\* the same when the price for the close could be fetched
ReversalThenNoSizePriced ==
    (last_exec.reversal /\ last_exec.new_id = 0 /\ last_exec.ticker # NoPrice)
        => /\ orders[last_exec.old_id].state = "closed"
           /\ \A i \in 1..Len(orders) :
                 orders[i].symbol = last_exec.symbol
                     => orders[i].state \in not_open_states

\* a reversal that placed no order happens
ReversalNoSizeReached ==
    last_exec.reversal /\ last_exec.new_id = 0 /\ last_exec.ticker # NoPrice

============================================================================
